---- MODULE Spec2Model ----
(***************************************************************************)
(* Home mining fleet manager: the per-device thermal controller            *)
(* (src/thermal.py) and the time-of-use rate resolver (src/energy.py,      *)
(* src/database/db.py).                                                    *)
(*                                                                         *)
(* Temperatures are whole degrees C, frequencies MHz, timestamps whole     *)
(* seconds of datetime.now().  Energy rates are hundredths of $/kWh.       *)
(* A time-of-day string "HH:MM" is the record [h |-> HH, m |-> MM].        *)
(* ThermalState.temp_history / hashrate_history are not modelled: they are *)
(* only read by get_average_temp, which no control decision uses.          *)
(***************************************************************************)
EXTENDS Integers, Sequences, FiniteSets, TLC

VARIABLES
    now,                 \* datetime.now(), seconds
    ticks,               \* number of clock advances so far (bounds the run)
    thermal_states,      \* ThermalManager.thermal_states: ip -> ThermalState
    global_auto_tune_enabled,   \* ThermalManager.global_auto_tune_enabled
    ret,                 \* the value returned by the most recent ThermalManager call
    scen_pc,             \* the scenario driver's position
    scen_out,            \* the (frequency, reason) pairs the scenario's polls returned
    energy_rates,        \* table energy_rates: the rows in insertion (rowid) order
    energy_config,       \* table energy_config: its single row, or none
    rate_ret,            \* the value returned by the most recent rate query
    tr_windows,          \* the window list under test for _time_in_range
    tr_cur,              \* the time of day last tested against tr_windows
    tr_hits,             \* the windows of tr_windows for which _time_in_range held
    last_alerts,         \* AlertManager.last_alerts: key -> time of the last recorded send
    alert_ret,           \* the most recent AlertManager call and what it returned
    miners,              \* FleetManager.miners: ip -> Miner (type, last_status)
    miner_alert_states,  \* FleetManager.miner_alert_states: ip -> was_online, last_temp_alert
    overheat_recovery_states,   \* FleetManager.overheat_recovery_states: ip -> overheated_at
    poll,                \* what the most recent fleet operation did (alerts, commands)
    polls,               \* number of device polls so far (bounds the run)
    monitoring_active,   \* FleetManager.monitoring_active
    monitoring_thread,   \* position of the monitor_loop thread ("none": not started)
    iteration,           \* iterations of monitor_loop begun so far
    futures,             \* update_all_miners: ip -> state of the device's poll task
    tick_log,            \* ip -> the iteration that last polled it, and last raised in its poll
    lock,                \* FleetManager.lock: the thread holding it, "" when free
    net,                 \* the network calls to devices in progress
    api_pc,              \* position of the request-handling thread
    stop_called,         \* "no", or where monitor_loop was when stop_monitoring was called
    mining_schedule,     \* table mining_schedule: the rows in insertion (rowid) order
    sched_ret,           \* the most recent write request or schedule query and its result
    tick_pc,             \* update_all_miners: where the call is in reading self.miners
    tick_len,            \* the size of self.miners when the iteration over it began
    tick_seen,           \* the devices the iteration has submitted a poll for
    tick_result,         \* how the most recent update_all_miners call ended
    loop_threads,        \* the monitor_loop threads created so far: position and ticks run
    join_pc              \* position of the caller of start_monitoring / stop_monitoring

thermalVars == <<now, ticks, thermal_states, global_auto_tune_enabled, ret>>

scenVars == <<scen_pc, scen_out>>

rateVars == <<energy_rates, energy_config, rate_ret>>

trVars == <<tr_windows, tr_cur, tr_hits>>

alertVars == <<last_alerts, alert_ret>>

fleetVars == <<miners, miner_alert_states, overheat_recovery_states, poll, polls>>

monVars == <<monitoring_active, monitoring_thread, iteration, futures, tick_log,
             lock, net, api_pc, stop_called>>

schedVars == <<mining_schedule, sched_ret>>

regVars == <<tick_pc, tick_len, tick_seen, tick_result>>

loopVars == <<loop_threads, join_pc>>

vars == <<thermalVars, scenVars, rateVars, trVars, alertVars, fleetVars, monVars, schedVars, regVars, loopVars>>

-----------------------------------------------------------------------------
(* Bounds of the model *)

MaxTicks == 2

(* None for a timestamp (cooldown_started, last_adjustment) *)
NoTime == -1

IPs == {"m1"}

MinerTypes == {"Bitaxe", "Unknown"}

Temps == {45, 50, 60, 63, 66, 72}

Deltas == {15, 30, 600}

ForcedFrequencies == {-5, 490, 1000}

-----------------------------------------------------------------------------
(* src/thermal.py: profiles *)

CooldownDuration == 600

AdjustmentInterval == 30

MINER_PROFILES(miner_type) ==
    CASE miner_type = "Bitaxe" ->
           [min_freq |-> 400, max_freq |-> 600, default_freq |-> 490,
            optimal_temp |-> 60, warning_temp |-> 65, critical_temp |-> 68,
            max_chip_temp |-> 75, temp_hysteresis |-> 2, freq_step |-> 10]
      [] miner_type \in {"Antminer", "Whatsminer", "Avalon"} ->
           [min_freq |-> 400, max_freq |-> 650, default_freq |-> 550,
            optimal_temp |-> 65, warning_temp |-> 75, critical_temp |-> 80,
            max_chip_temp |-> 85, temp_hysteresis |-> 3, freq_step |-> 25]
      [] OTHER ->
           [min_freq |-> 400, max_freq |-> 500, default_freq |-> 450,
            optimal_temp |-> 60, warning_temp |-> 65, critical_temp |-> 70,
            max_chip_temp |-> 75, temp_hysteresis |-> 2, freq_step |-> 10]

Max(a, b) == IF a >= b THEN a ELSE b

Min(a, b) == IF a <= b THEN a ELSE b

(* ThermalState.__init__ *)
ThermalState(miner_type) ==
    [miner_type |-> miner_type,
     current_freq |-> MINER_PROFILES(miner_type).default_freq,
     current_temp |-> 0,
     last_temp |-> 0,
     temp_trend |-> 0,
     in_emergency_cooldown |-> FALSE,
     cooldown_started |-> NoTime,
     auto_tune_enabled |-> TRUE,
     last_adjustment |-> NoTime]

Profile(state) == MINER_PROFILES(state.miner_type)

(* ThermalState.update_temperature *)
update_temperature(state, temp) ==
    [state EXCEPT !.last_temp = state.current_temp,
                  !.current_temp = temp,
                  !.temp_trend = IF state.current_temp > 0
                                 THEN temp - state.current_temp
                                 ELSE state.temp_trend]

(* A cooldown that ends 30 s after the shutdown (the adjustment interval
   taken for the cooldown duration) *)
check_emergency_cooldown_short(state, t) ==
    IF ~state.in_emergency_cooldown
    THEN [state |-> state, result |-> FALSE]
    ELSE IF t - state.cooldown_started >= 30
         THEN [state |-> [state EXCEPT !.in_emergency_cooldown = FALSE,
                                       !.cooldown_started = -1],
               result |-> FALSE]
         ELSE [state |-> state, result |-> TRUE]

(* A cooldown that is still running at the instant it should end (> for >=) *)
check_emergency_cooldown_strict(state, t) ==
    IF ~state.in_emergency_cooldown
    THEN [state |-> state, result |-> FALSE]
    ELSE IF t - state.cooldown_started > 600
         THEN [state |-> [state EXCEPT !.in_emergency_cooldown = FALSE,
                                       !.cooldown_started = -1],
               result |-> FALSE]
         ELSE [state |-> state, result |-> TRUE]

(* ThermalState.check_emergency_cooldown: the state it leaves and its result *)
check_emergency_cooldown(state, t) ==
    IF ~state.in_emergency_cooldown
    THEN [state |-> state, result |-> FALSE]
    ELSE IF t - state.cooldown_started >= CooldownDuration
         THEN [state |-> [state EXCEPT !.in_emergency_cooldown = FALSE,
                                       !.cooldown_started = NoTime],
               result |-> FALSE]
         ELSE [state |-> state, result |-> TRUE]

(* A shutdown that starts the cooldown and leaves the frequency as it was *)
trigger_emergency_shutdown_keeps_freq(state, t) ==
    [state EXCEPT !.in_emergency_cooldown = TRUE,
                  !.cooldown_started = t]

(* ThermalState.trigger_emergency_shutdown *)
trigger_emergency_shutdown(state, t) ==
    [state EXCEPT !.in_emergency_cooldown = TRUE,
                  !.cooldown_started = t,
                  !.current_freq = 0]

(* A rate limit of half the adjustment interval *)
can_adjust_frequency_half_interval(state, t) ==
    IF state.last_adjustment = -1
    THEN TRUE
    ELSE t - state.last_adjustment >= 15

(* ThermalState.can_adjust_frequency *)
can_adjust_frequency(state, t) ==
    IF state.last_adjustment = NoTime
    THEN TRUE
    ELSE t - state.last_adjustment >= AdjustmentInterval

(* An adjustment whose warning branch steps down by one freq_step only *)
temperature_adjustment_single_step(state) ==
    LET profile == MINER_PROFILES(state.miner_type)
        current_freq == state.current_freq
        current_temp == state.current_temp
    IN  IF current_temp > profile.optimal_temp + profile.temp_hysteresis
        THEN [freq |-> Max(profile.min_freq, current_freq - profile.freq_step),
              reason |-> IF current_temp >= profile.warning_temp
                         THEN "Too hot, reducing frequency"
                         ELSE "Above optimal, reducing"]
        ELSE IF current_temp < profile.optimal_temp - profile.temp_hysteresis
        THEN IF state.temp_trend <= 1
             THEN [freq |-> Min(profile.max_freq, current_freq + profile.freq_step),
                   reason |-> "Below optimal, increasing"]
             ELSE [freq |-> current_freq,
                   reason |-> "Below optimal but temp rising, holding"]
        ELSE [freq |-> current_freq, reason |-> "In optimal range"]

(* An adjustment whose warning branch does not floor at min_freq *)
temperature_adjustment_no_floor(state) ==
    LET profile == MINER_PROFILES(state.miner_type)
        current_freq == state.current_freq
        current_temp == state.current_temp
    IN  IF current_temp >= profile.warning_temp
        THEN [freq |-> current_freq - profile.freq_step * 2,
              reason |-> "Too hot, reducing frequency"]
        ELSE IF current_temp > profile.optimal_temp + profile.temp_hysteresis
        THEN [freq |-> Max(profile.min_freq, current_freq - profile.freq_step),
              reason |-> "Above optimal, reducing"]
        ELSE IF current_temp < profile.optimal_temp - profile.temp_hysteresis
        THEN IF state.temp_trend <= 1
             THEN [freq |-> Min(profile.max_freq, current_freq + profile.freq_step),
                   reason |-> "Below optimal, increasing"]
             ELSE [freq |-> current_freq,
                   reason |-> "Below optimal but temp rising, holding"]
        ELSE [freq |-> current_freq, reason |-> "In optimal range"]

(* An adjustment that holds as soon as the trend reaches 1 (< for <=) *)
temperature_adjustment_strict_trend(state) ==
    LET profile == MINER_PROFILES(state.miner_type)
        current_freq == state.current_freq
        current_temp == state.current_temp
    IN  IF current_temp >= profile.warning_temp
        THEN [freq |-> Max(profile.min_freq, current_freq - profile.freq_step * 2),
              reason |-> "Too hot, reducing frequency"]
        ELSE IF current_temp > profile.optimal_temp + profile.temp_hysteresis
        THEN [freq |-> Max(profile.min_freq, current_freq - profile.freq_step),
              reason |-> "Above optimal, reducing"]
        ELSE IF current_temp < profile.optimal_temp - profile.temp_hysteresis
        THEN IF state.temp_trend < 1
             THEN [freq |-> Min(profile.max_freq, current_freq + profile.freq_step),
                   reason |-> "Below optimal, increasing"]
             ELSE [freq |-> current_freq,
                   reason |-> "Below optimal but temp rising, holding"]
        ELSE [freq |-> current_freq, reason |-> "In optimal range"]

(* The temperature-based adjustment of calculate_optimal_frequency:
   the target frequency and the reason *)
temperature_adjustment(state) ==
    LET profile == Profile(state)
        current_freq == state.current_freq
        current_temp == state.current_temp
    IN  IF current_temp >= profile.warning_temp
        THEN [freq |-> Max(profile.min_freq, current_freq - profile.freq_step * 2),
              reason |-> "Too hot, reducing frequency"]
        ELSE IF current_temp > profile.optimal_temp + profile.temp_hysteresis
        THEN [freq |-> Max(profile.min_freq, current_freq - profile.freq_step),
              reason |-> "Above optimal, reducing"]
        ELSE IF current_temp < profile.optimal_temp - profile.temp_hysteresis
        THEN IF state.temp_trend <= 1
             THEN [freq |-> Min(profile.max_freq, current_freq + profile.freq_step),
                   reason |-> "Below optimal, increasing"]
             ELSE [freq |-> current_freq,
                   reason |-> "Below optimal but temp rising, holding"]
        ELSE [freq |-> current_freq, reason |-> "In optimal range"]

(* A calculation that looks at the device's own switch only and ignores
   the global one *)
calculate_ignores_global_switch(state, t, global_enabled) ==
    LET cd == check_emergency_cooldown(state, t)
        s1 == cd.state
    IN  IF cd.result
        THEN [state |-> s1, freq |-> 0, reason |-> "Emergency cooldown in progress"]
        ELSE IF s1.current_temp >= Profile(s1).critical_temp
        THEN [state |-> trigger_emergency_shutdown(s1, t), freq |-> 0,
              reason |-> "EMERGENCY: Critical temp"]
        ELSE IF ~s1.auto_tune_enabled
        THEN [state |-> s1, freq |-> s1.current_freq, reason |-> "Auto-tune disabled"]
        ELSE IF ~can_adjust_frequency(s1, t)
        THEN [state |-> s1, freq |-> s1.current_freq,
              reason |-> "Too soon since last adjustment"]
        ELSE LET adj == temperature_adjustment(s1)
             IN  IF adj.freq # s1.current_freq
                 THEN [state |-> [s1 EXCEPT !.last_adjustment = t,
                                            !.current_freq = adj.freq],
                       freq |-> adj.freq, reason |-> adj.reason]
                 ELSE [state |-> s1, freq |-> adj.freq, reason |-> adj.reason]

(* A calculation that tests the critical temperature before the running
   cooldown *)
calculate_critical_first(state, t, global_enabled) ==
    IF state.current_temp >= Profile(state).critical_temp
    THEN [state |-> trigger_emergency_shutdown(state, t), freq |-> 0,
          reason |-> "EMERGENCY: Critical temp"]
    ELSE LET cd == check_emergency_cooldown(state, t)
             s1 == cd.state
         IN  IF cd.result
             THEN [state |-> s1, freq |-> 0, reason |-> "Emergency cooldown in progress"]
             ELSE IF ~s1.auto_tune_enabled \/ ~global_enabled
             THEN [state |-> s1, freq |-> s1.current_freq,
                   reason |-> "Auto-tune disabled"]
             ELSE IF ~can_adjust_frequency(s1, t)
             THEN [state |-> s1, freq |-> s1.current_freq,
                   reason |-> "Too soon since last adjustment"]
             ELSE LET adj == temperature_adjustment(s1)
                  IN  IF adj.freq # s1.current_freq
                      THEN [state |-> [s1 EXCEPT !.last_adjustment = t,
                                                 !.current_freq = adj.freq],
                            freq |-> adj.freq, reason |-> adj.reason]
                      ELSE [state |-> s1, freq |-> adj.freq, reason |-> adj.reason]

(* ThermalManager.calculate_optimal_frequency on a registered miner:
   the state it leaves, the target frequency and the reason *)
calculate(state, t, global_enabled) ==
    LET cd == check_emergency_cooldown(state, t)
        s1 == cd.state
    IN  IF cd.result
        THEN [state |-> s1, freq |-> 0, reason |-> "Emergency cooldown in progress"]
        ELSE IF s1.current_temp >= Profile(s1).critical_temp
        THEN [state |-> trigger_emergency_shutdown(s1, t), freq |-> 0,
              reason |-> "EMERGENCY: Critical temp"]
        ELSE IF ~s1.auto_tune_enabled \/ ~global_enabled
        THEN [state |-> s1, freq |-> s1.current_freq, reason |-> "Auto-tune disabled"]
        ELSE IF ~can_adjust_frequency(s1, t)
        THEN [state |-> s1, freq |-> s1.current_freq,
              reason |-> "Too soon since last adjustment"]
        ELSE LET adj == temperature_adjustment(s1)
             IN  IF adj.freq # s1.current_freq
                 THEN [state |-> [s1 EXCEPT !.last_adjustment = t,
                                            !.current_freq = adj.freq],
                       freq |-> adj.freq, reason |-> adj.reason]
                 ELSE [state |-> s1, freq |-> adj.freq, reason |-> adj.reason]

-----------------------------------------------------------------------------
(* The value the most recent call returned; NoRet is None (a call that
   returns nothing, or time has passed since the call) *)

Ret(op, ip, freq, reason) == [op |-> op, ip |-> ip, freq |-> freq, reason |-> reason]

NoRet == Ret("none", "", 0, "")


Registered(ip) == ip \in DOMAIN thermal_states

-----------------------------------------------------------------------------
(* Operations of ThermalManager *)

register_miner(ip, miner_type) ==
    /\ thermal_states' = IF Registered(ip)
                         THEN thermal_states
                         ELSE thermal_states @@ (ip :> ThermalState(miner_type))
    /\ ret' = NoRet
    /\ UNCHANGED <<now, ticks, global_auto_tune_enabled>>

update_miner_stats(ip, temperature) ==
    /\ thermal_states' = IF Registered(ip)
                         THEN [thermal_states EXCEPT
                                 ![ip] = update_temperature(@, temperature)]
                         ELSE thermal_states
    /\ ret' = NoRet
    /\ UNCHANGED <<now, ticks, global_auto_tune_enabled>>

calculate_optimal_frequency(ip) ==
    /\ IF ~Registered(ip)
       THEN /\ ret' = Ret("calculate_optimal_frequency", ip, 0, "Miner not registered")
            /\ UNCHANGED thermal_states
       ELSE LET out == calculate(thermal_states[ip], now, global_auto_tune_enabled)
            IN  /\ thermal_states' = [thermal_states EXCEPT ![ip] = out.state]
                /\ ret' = Ret("calculate_optimal_frequency", ip, out.freq, out.reason)
    /\ UNCHANGED <<now, ticks, global_auto_tune_enabled>>

set_auto_tune(ip, enabled) ==
    /\ thermal_states' = IF Registered(ip)
                         THEN [thermal_states EXCEPT ![ip].auto_tune_enabled = enabled]
                         ELSE thermal_states
    /\ ret' = NoRet
    /\ UNCHANGED <<now, ticks, global_auto_tune_enabled>>

set_global_auto_tune(enabled) ==
    /\ global_auto_tune_enabled' = enabled
    /\ ret' = NoRet
    /\ UNCHANGED <<now, ticks, thermal_states>>

(* A clamp that caps at max_freq and has no floor at min_freq *)
clamp_frequency_no_floor(profile, frequency) ==
    Min(profile.max_freq, frequency)

(* force_frequency: the frequency clamped to the profile's range *)
clamp_frequency(profile, frequency) ==
    Max(profile.min_freq, Min(profile.max_freq, frequency))

force_frequency(ip, frequency) ==
    /\ IF ~Registered(ip)
       THEN /\ ret' = Ret("force_frequency", ip, 0, "False")
            /\ UNCHANGED thermal_states
       ELSE /\ thermal_states' =
                 [thermal_states EXCEPT
                    ![ip].current_freq = clamp_frequency(Profile(thermal_states[ip]), frequency),
                    ![ip].auto_tune_enabled = FALSE]
            /\ ret' = Ret("force_frequency", ip, 0, "True")
    /\ UNCHANGED <<now, ticks, global_auto_tune_enabled>>

(* A reset that restores the frequency and auto-tune but leaves a running
   cooldown in place *)
reset_miner_keeps_cooldown(ip) ==
    /\ thermal_states' =
         IF Registered(ip)
         THEN [thermal_states EXCEPT
                 ![ip].current_freq = Profile(thermal_states[ip]).default_freq,
                 ![ip].auto_tune_enabled = TRUE]
         ELSE thermal_states
    /\ ret' = NoRet
    /\ UNCHANGED <<now, ticks, global_auto_tune_enabled>>

reset_miner(ip) ==
    /\ thermal_states' =
         IF Registered(ip)
         THEN [thermal_states EXCEPT
                 ![ip].current_freq = Profile(thermal_states[ip]).default_freq,
                 ![ip].auto_tune_enabled = TRUE,
                 ![ip].in_emergency_cooldown = FALSE,
                 ![ip].cooldown_started = NoTime]
         ELSE thermal_states
    /\ ret' = NoRet
    /\ UNCHANGED <<now, ticks, global_auto_tune_enabled>>

(* Time passes between calls *)
Tick(d) ==
    /\ ticks < MaxTicks
    /\ now' = now + d
    /\ ticks' = ticks + 1
    /\ ret' = NoRet
    /\ UNCHANGED <<thermal_states, global_auto_tune_enabled>>

-----------------------------------------------------------------------------
(* The scenario of one device polled four times (src/app.py, update_miner:
   update_miner_stats at line 229, calculate_optimal_frequency at line 287) *)

ScenIP == "m1"

ScenTemps == <<60, 66, 69, 72>>

ScenGaps == {15, 30, 300}

(* Setting the device up at 490 MHz under the 'Unknown' profile: by
   force_frequency(490), or by force_frequency to the maximum and one
   "above optimal" step down; auto-tune is switched back on *)
ScenSetup ==
    /\ scen_pc = "setup"
    /\ \/ register_miner(ScenIP, "Unknown")
       \/ \E f \in {490, 1000} : force_frequency(ScenIP, f)
       \/ set_auto_tune(ScenIP, TRUE)
       \/ update_miner_stats(ScenIP, 63)
       \/ calculate_optimal_frequency(ScenIP)
    /\ UNCHANGED scenVars

ScenBegin ==
    /\ scen_pc = "setup"
    /\ Registered(ScenIP)
    /\ thermal_states[ScenIP].current_freq = 490
    /\ thermal_states[ScenIP].auto_tune_enabled
    /\ ~thermal_states[ScenIP].in_emergency_cooldown
    /\ scen_pc' = "sample"
    /\ UNCHANGED <<thermalVars, scen_out>>

ScenSample ==
    /\ scen_pc = "sample"
    /\ update_miner_stats(ScenIP, ScenTemps[Len(scen_out) + 1])
    /\ scen_pc' = "calc"
    /\ UNCHANGED scen_out

ScenCalc ==
    /\ scen_pc = "calc"
    /\ calculate_optimal_frequency(ScenIP)
    /\ scen_out' = Append(scen_out, [freq |-> ret'.freq, reason |-> ret'.reason])
    /\ scen_pc' = IF Len(scen_out) + 1 = Len(ScenTemps) THEN "done" ELSE "wait"

ScenWait(d) ==
    /\ scen_pc = "wait"
    /\ now' = now + d
    /\ ret' = NoRet
    /\ scen_pc' = "sample"
    /\ UNCHANGED <<ticks, thermal_states, global_auto_tune_enabled, scen_out>>

-----------------------------------------------------------------------------
(* src/energy.py, src/database/db.py: the time-of-use rate resolver *)

(* The string "HH:MM" *)
Str(h, m) == [h |-> h, m |-> m]

(* strptime raised ValueError *)
ParseError == -1

(* datetime.strptime(s, "%H:%M").time(), as minutes since midnight *)
strptime(s) ==
    IF s.h \in 0..23 /\ s.m \in 0..59 THEN s.h * 60 + s.m ELSE ParseError

(* strftime("%H:%M") of a time of day given in minutes since midnight *)
strftime(minutes) == Str(minutes \div 60, minutes % 60)

(* _time_in_range with the end of every window inclusive *)
time_in_range_end_inclusive(current, start, end) ==
    LET current_dt == strptime(current)
        start_dt == strptime(start)
        end_dt == strptime(end)
    IN  IF current_dt = -1 \/ start_dt = -1 \/ end_dt = -1
        THEN FALSE
        ELSE IF start_dt <= end_dt
             THEN start_dt <= current_dt /\ current_dt <= end_dt
             ELSE current_dt >= start_dt \/ current_dt <= end_dt

(* _time_in_range that treats a window crossing midnight as an ordinary one *)
time_in_range_no_wrap(current, start, end) ==
    LET current_dt == strptime(current)
        start_dt == strptime(start)
        end_dt == strptime(end)
    IN  IF current_dt = -1 \/ start_dt = -1 \/ end_dt = -1
        THEN FALSE
        ELSE IF end = Str(23, 59)
             THEN start_dt <= current_dt /\ current_dt <= end_dt
             ELSE start_dt <= current_dt /\ current_dt < end_dt

(* EnergyRateManager._time_in_range *)
time_in_range(current, start, end) ==
    LET current_dt == strptime(current)
        start_dt == strptime(start)
        end_dt == strptime(end)
        end_is_eod == (end = Str(23, 59))
    IN  IF current_dt = ParseError \/ start_dt = ParseError \/ end_dt = ParseError
        THEN FALSE
        ELSE IF start_dt <= end_dt
             THEN IF end_is_eod
                  THEN start_dt <= current_dt /\ current_dt <= end_dt
                  ELSE start_dt <= current_dt /\ current_dt < end_dt
             ELSE IF end_is_eod
                  THEN current_dt >= start_dt \/ current_dt <= end_dt
                  ELSE current_dt >= start_dt \/ current_dt < end_dt

(* day_of_week NULL *)
NoDay == ""

Days == {"Monday", "Tuesday", "Wednesday", "Thursday", "Friday", "Saturday", "Sunday"}

Rate(day, start, end, rate, type) ==
    [day_of_week |-> day, start_time |-> start, end_time |-> end,
     rate_per_kwh |-> rate, rate_type |-> type]

(* A day filter that lets every window through *)
day_filter_skips_never(rate, day_name) == FALSE

(* A day filter that reads 'weekday' as Monday to Friday and 'weekend' as
   Saturday and Sunday *)
day_filter_skips_by_category(rate, day_name) ==
    /\ rate.day_of_week # NoDay
    /\ rate.day_of_week # day_name
    /\ ~(rate.day_of_week = "weekday" /\ day_name \notin {"Saturday", "Sunday"})
    /\ ~(rate.day_of_week = "weekend" /\ day_name \in {"Saturday", "Sunday"})

(* The day check of the resolver's loop: the window is skipped *)
day_filter_skips(rate, day_name) ==
    rate.day_of_week # NoDay /\ rate.day_of_week # day_name

(* The resolver's loop over the rate list from row i on: the index of the
   row whose rate is returned, 0 when the loop falls through *)
RECURSIVE find_rate(_, _, _, _)
find_rate(rates, i, day_name, time_str) ==
    IF i > Len(rates)
    THEN 0
    ELSE IF day_filter_skips(rates[i], day_name)
         THEN find_rate(rates, i + 1, day_name, time_str)
         ELSE IF time_in_range(time_str, rates[i].start_time, rates[i].end_time)
              THEN i
              ELSE find_rate(rates, i + 1, day_name, time_str)

(* default_rate NULL / None *)
NullRate == -1

(* 0.12 $/kWh *)
FallbackRate == 12

(* No row in energy_config *)
NoConfig == [present |-> FALSE, default_rate |-> NullRate]

Config(default_rate) == [present |-> TRUE, default_rate |-> default_rate]

(* "HH:MM" strings compared as SQLite compares text *)
StrLE(a, b) == a.h < b.h \/ (a.h = b.h /\ a.m <= b.m)

(* Database.get_energy_rates: SELECT * ... ORDER BY start_time.  The order of
   rows with equal start_time is not defined by SQL: any of them *)
get_energy_rates ==
    LET n == Len(energy_rates)
        orders == {p \in [1..n -> 1..n] :
                     /\ \A i, j \in 1..n : i # j => p[i] # p[j]
                     /\ \A i, j \in 1..n :
                          i < j => StrLE(energy_rates[p[i]].start_time,
                                         energy_rates[p[j]].start_time)}
    IN  {[i \in 1..n |-> energy_rates[p[i]]] : p \in orders}

(* The default of get_current_rate *)
default_current_rate(config_data) ==
    IF config_data.present THEN config_data.default_rate ELSE FallbackRate

(* The default of get_rate_for_timestamp *)
default_rate_for_timestamp(config_data) ==
    IF config_data.present /\ config_data.default_rate # NullRate
                           /\ config_data.default_rate # 0
    THEN config_data.default_rate
    ELSE FallbackRate

(* The default of get_rate_info_for_hour *)
default_rate_info(config_data) ==
    IF config_data.present THEN config_data.default_rate ELSE FallbackRate

RateRet(op, day, time_str, rates, row, rate) ==
    [op |-> op, day |-> day, time |-> time_str, rates |-> rates, row |-> row,
     rate |-> rate]

NoRateRet == RateRet("none", NoDay, Str(0, 0), <<>>, 0, 0)

(* Database.delete_all_energy_rates *)
delete_all_energy_rates ==
    /\ energy_rates' = <<>>
    /\ rate_ret' = NoRateRet
    /\ UNCHANGED energy_config

(* Database.add_energy_rate; EnergyRateManager.set_tou_rates is
   delete_all_energy_rates followed by one add_energy_rate per rate *)
add_energy_rate(rate) ==
    /\ energy_rates' = Append(energy_rates, rate)
    /\ rate_ret' = NoRateRet
    /\ UNCHANGED energy_config

(* Database.set_energy_config *)
set_energy_config(default_rate) ==
    /\ energy_config' = Config(default_rate)
    /\ rate_ret' = NoRateRet
    /\ UNCHANGED energy_rates

(* EnergyRateManager.get_current_rate at the wall-clock instant (day, minutes) *)
get_current_rate(day, minutes) ==
    /\ \E rates \in get_energy_rates :
         LET time_str == strftime(minutes)
             row == find_rate(rates, 1, day, time_str)
         IN  rate_ret' = RateRet("get_current_rate", day, time_str, rates, row,
                                 IF row # 0 THEN rates[row].rate_per_kwh
                                 ELSE default_current_rate(energy_config))
    /\ UNCHANGED <<energy_rates, energy_config>>

(* EnergyRateManager.get_rate_for_timestamp *)
get_rate_for_timestamp(day, minutes) ==
    /\ \E rates \in get_energy_rates :
         LET time_str == strftime(minutes)
             row == find_rate(rates, 1, day, time_str)
         IN  rate_ret' = RateRet("get_rate_for_timestamp", day, time_str, rates, row,
                                 IF row # 0 THEN rates[row].rate_per_kwh
                                 ELSE default_rate_for_timestamp(energy_config))
    /\ UNCHANGED <<energy_rates, energy_config>>

(* EnergyRateManager.get_rate_info_for_hour: the 'rate' of the dict returned *)
get_rate_info_for_hour(hour, day_of_week) ==
    /\ \E rates \in get_energy_rates :
         LET time_str == Str(hour, 0)
             row == find_rate(rates, 1, day_of_week, time_str)
         IN  rate_ret' = RateRet("get_rate_info_for_hour", day_of_week, time_str,
                                 rates, row,
                                 IF row # 0 THEN rates[row].rate_per_kwh
                                 ELSE default_rate_info(energy_config))
    /\ UNCHANGED <<energy_rates, energy_config>>

-----------------------------------------------------------------------------
(* Inputs of the rate resolver *)

MaxRows == 2

WeekdayPeak == Rate("weekday", Str(16, 0), Str(21, 0), 17, "peak")

AllDayStandard == Rate(NoDay, Str(0, 0), Str(23, 59), 9, "standard")

RateRows ==
    {WeekdayPeak, AllDayStandard,
     Rate("Monday", Str(0, 0), Str(23, 59), 20, "peak"),
     Rate(NoDay, Str(23, 0), Str(7, 0), 8, "off-peak"),
     Rate(NoDay, Str(14, 0), Str(19, 0), 18, "peak")}

DefaultRates == {NullRate, 0, 11}

QueryDays == {"Monday", "Saturday"}

QueryMinutes == {419, 840, 1080, 1410}

QueryHours == {6, 14, 18}

-----------------------------------------------------------------------------
(* _time_in_range applied to every window of a list *)

NoProbe == Str(99, 99)

Window(start, end) == [start_time |-> start, end_time |-> end]

check_windows(current) ==
    /\ tr_cur' = current
    /\ tr_hits' = {i \in 1..Len(tr_windows) :
                     time_in_range(current, tr_windows[i].start_time,
                                   tr_windows[i].end_time)}
    /\ UNCHANGED tr_windows

MaxCuts == 2

(* 23:59, the last minute of the day *)
LastMinute == 1439

CutTimes == {Str(0, 1), Str(7, 0), Str(14, 0), Str(19, 0), Str(23, 58)}

GridTimes == {Str(0, 0), Str(7, 0), Str(14, 0), Str(23, 0), Str(23, 59), Str(24, 0)}

(* The cut points in increasing order *)
RECURSIVE SortedCuts(_)
SortedCuts(cuts) ==
    IF cuts = {}
    THEN <<>>
    ELSE LET first == CHOOSE c \in cuts : \A d \in cuts : StrLE(c, d)
         IN  <<first>> \o SortedCuts(cuts \ {first})

(* The windows 00:00-c1, c1-c2, ..., ck-23:59 *)
TilingOf(cuts) ==
    LET b == <<Str(0, 0)>> \o SortedCuts(cuts) \o <<Str(23, 59)>>
    IN  [i \in 1..(Len(b) - 1) |-> Window(b[i], b[i + 1])]

WindowLists ==
    {TilingOf(cuts) : cuts \in {c \in SUBSET CutTimes : Cardinality(c) <= MaxCuts}}
    \cup {<<Window(a, b)>> : a \in GridTimes, b \in GridTimes}

-----------------------------------------------------------------------------
(* src/energy.py, src/app.py, src/database/db.py: the writers of rate windows
   and schedule rows *)

(* A key that the JSON object of a request does not have *)
NoField == Str(-1, -1)

(* "24:00" is not a time strptime("%H:%M") accepts *)
WriteTimes == {Str(14, 0), Str(24, 0)}

(* A row of mining_schedule as add_mining_schedule stores it by default:
   enabled = 1 *)
Schedule(day, start, end, target_frequency) ==
    [day_of_week |-> day, start_time |-> start, end_time |-> end,
     target_frequency |-> target_frequency, enabled |-> 1]

(* The same row posted with 'enabled': 0 *)
Disabled(schedule) == [schedule EXCEPT !.enabled = 0]

(* The rate dictionaries a caller passes: with both times, or without the
   key end_time *)
WriteRows ==
    {Rate(NoDay, Str(0, 0), b, 10, "standard") : b \in WriteTimes}
    \cup {Rate(NoDay, Str(0, 0), NoField, 10, "standard")}

WriteRateLists ==
    UNION {[1..n -> WriteRows] : n \in 1..MaxRows}

ScheduleRows ==
    {Schedule(NoDay, Str(0, 0), b, 450) : b \in WriteTimes}
    \cup {Schedule(NoDay, Str(0, 0), NoField, 450)}

(* 'rates' not in data *)
NoRates == <<>>

(* The body of POST /api/energy/rates/manual: a rates array, or the
   simplified format *)
ManualData(rates, peak_rate, off_peak_rate, peak_start, peak_end) ==
    [rates |-> rates, peak_rate |-> peak_rate, off_peak_rate |-> off_peak_rate,
     peak_start |-> peak_start, peak_end |-> peak_end]

ManualBodies ==
    {ManualData(rates, 0, 0, Str(14, 0), Str(19, 0)) : rates \in WriteRateLists}
    \cup {ManualData(NoRates, 18, 9, a, b) : a \in WriteTimes, b \in WriteTimes}
    \cup {ManualData(NoRates, 0, 0, Str(14, 0), Str(19, 0))}

SchedRet(op, status, target_frequency, rows) ==
    [op |-> op, status |-> status, target_frequency |-> target_frequency, rows |-> rows]

NoSchedRet == SchedRet("none", 0, 0, <<>>)

(* rate['start_time'], rate['end_time'] raise KeyError *)
lacks_time(row) == row.start_time = NoField \/ row.end_time = NoField

(* set_tou_rates: the rows its loop has added when it returns or raises *)
rows_added(rates) ==
    LET bad == {i \in 1..Len(rates) : lacks_time(rates[i])}
    IN  IF bad = {}
        THEN rates
        ELSE SubSeq(rates, 1, (CHOOSE i \in bad : \A j \in bad : i <= j) - 1)

(* EnergyRateManager.set_tou_rates *)
set_tou_rates(rates) ==
    /\ energy_rates' = rows_added(rates)
    /\ rate_ret' = NoRateRet
    /\ sched_ret' = SchedRet("set_tou_rates",
                             IF rows_added(rates) = rates THEN 200 ELSE 500, 0, <<>>)
    /\ UNCHANGED <<energy_config, mining_schedule>>

RECURSIVE SumRates(_)
SumRates(rates) ==
    IF rates = <<>> THEN 0 ELSE Head(rates).rate_per_kwh + SumRates(Tail(rates))

(* set_manual_rates: the rates it applies for a body it accepts *)
manual_rates(data) ==
    IF data.rates # NoRates
    THEN data.rates
    ELSE IF data.peak_rate # 0 /\ data.off_peak_rate # 0
         THEN <<Rate(NoDay, Str(0, 0), data.peak_start, data.off_peak_rate, "off-peak"),
                Rate(NoDay, data.peak_start, data.peak_end, data.peak_rate, "peak"),
                Rate(NoDay, data.peak_end, Str(23, 59), data.off_peak_rate, "off-peak")>>
         ELSE <<Rate(NoDay, Str(0, 0), Str(23, 59), 12, "standard")>>

(* set_manual_rates: the validation of a rates array *)
manual_rates_valid(data) ==
    data.rates = NoRates \/ \A i \in 1..Len(data.rates) : ~lacks_time(data.rates[i])

(* POST /api/energy/rates/manual *)
set_manual_rates(data) ==
    IF manual_rates_valid(data)
    THEN LET rates == manual_rates(data)
         IN  /\ energy_rates' = rates
             /\ energy_config' = Config(SumRates(rates) \div Len(rates))
             /\ rate_ret' = NoRateRet
             /\ sched_ret' = SchedRet("set_manual_rates", 200, 0, <<>>)
             /\ UNCHANGED mining_schedule
    ELSE /\ sched_ret' = SchedRet("set_manual_rates", 400, 0, <<>>)
         /\ UNCHANGED <<energy_rates, energy_config, rate_ret, mining_schedule>>

(* set_custom_energy_rates: the rate structure it builds; a peak_rate or
   offpeak_rate of 0 stands for a value Python takes as false *)
custom_rates(standard_rate, peak_rate, offpeak_rate) ==
    IF peak_rate # 0 /\ offpeak_rate # 0
    THEN <<Rate("weekday", Str(16, 0), Str(21, 0), peak_rate, "peak"),
           Rate(NoDay, Str(23, 0), Str(7, 0), offpeak_rate, "off-peak"),
           Rate(NoDay, Str(7, 0), Str(16, 0), standard_rate, "standard"),
           Rate(NoDay, Str(21, 0), Str(23, 0), standard_rate, "standard")>>
    ELSE <<Rate(NoDay, Str(0, 0), Str(23, 59), standard_rate, "standard")>>

(* POST /api/energy/rates/custom *)
set_custom_energy_rates(standard_rate, peak_rate, offpeak_rate) ==
    IF standard_rate <= 0
    THEN /\ rate_ret' = NoRateRet
         /\ UNCHANGED <<energy_rates, energy_config>>
    ELSE /\ energy_rates' = custom_rates(standard_rate, peak_rate, offpeak_rate)
         /\ energy_config' = Config(standard_rate)
         /\ rate_ret' = NoRateRet

(* POST /api/energy/schedule with a manual schedule *)
mining_schedule_post(schedule) ==
    /\ IF lacks_time(schedule)
       THEN /\ sched_ret' = SchedRet("mining_schedule", 500, 0, <<>>)
            /\ UNCHANGED mining_schedule
       ELSE /\ mining_schedule' = Append(mining_schedule, schedule)
            /\ sched_ret' = SchedRet("mining_schedule", 200, 0, <<>>)
    /\ UNCHANGED <<energy_rates, energy_config, rate_ret>>

(* WHERE enabled = 1 *)
IsEnabled(schedule) == schedule.enabled = 1

(* Database.get_mining_schedules: SELECT ... WHERE enabled = 1 ORDER BY
   start_time *)
get_mining_schedules ==
    LET rows == SelectSeq(mining_schedule, IsEnabled)
        n == Len(rows)
        orders == {p \in [1..n -> 1..n] :
                     /\ \A i, j \in 1..n : i # j => p[i] # p[j]
                     /\ \A i, j \in 1..n :
                          i < j => StrLE(rows[p[i]].start_time, rows[p[j]].start_time)}
    IN  {[i \in 1..n |-> rows[p[i]]] : p \in orders}

(* A loop that sends the rate at the threshold to the low frequency *)
schedule_from_rate_inclusive(rate, max_rate_threshold, low_frequency, high_frequency) ==
    Schedule(rate.day_of_week, rate.start_time, rate.end_time,
             IF rate.rate_per_kwh >= max_rate_threshold
             THEN low_frequency ELSE high_frequency)

(* create_schedule_from_rates: the row its loop adds for a rate window *)
schedule_from_rate(rate, max_rate_threshold, low_frequency, high_frequency) ==
    Schedule(rate.day_of_week, rate.start_time, rate.end_time,
             IF rate.rate_per_kwh > max_rate_threshold
             THEN low_frequency ELSE high_frequency)

(* delete_mining_schedule for every row get_mining_schedules returned: the
   rows that stay *)
IsDisabled(schedule) == ~IsEnabled(schedule)

(* MiningScheduler.create_schedule_from_rates: the enabled rows are deleted
   and one row per rate window is added, in the order get_rate_schedule
   returned the windows *)
create_schedule_from_rates(max_rate_threshold, low_frequency, high_frequency) ==
    /\ \E rates \in get_energy_rates :
         mining_schedule' =
             SelectSeq(mining_schedule, IsDisabled)
             \o [i \in 1..Len(rates) |->
                   schedule_from_rate(rates[i], max_rate_threshold,
                                      low_frequency, high_frequency)]
    /\ \E deleted \in get_mining_schedules :
         sched_ret' = SchedRet("create_schedule_from_rates", 200, 0, deleted)
    /\ UNCHANGED <<energy_rates, energy_config, rate_ret>>

(* MiningScheduler.should_mine_now at the given day and time *)
should_mine_now(day, minutes) ==
    /\ \E schedules \in get_mining_schedules :
         LET row == find_rate(schedules, 1, day, strftime(minutes))
         IN  sched_ret' = SchedRet("should_mine_now", 200,
                                   IF row # 0 THEN schedules[row].target_frequency ELSE 0,
                                   schedules)
    /\ UNCHANGED <<energy_rates, energy_config, rate_ret, mining_schedule>>

WriteQueryDays == {"Monday"}

WriteQueryMinutes == {419, 900}

ScheduleInit ==
    /\ mining_schedule = <<>>
    /\ sched_ret = NoSchedRet

-----------------------------------------------------------------------------
(* src/alerts.py: the alert cooldown of AlertManager *)

(* AlertConfig.alert_cooldown: timedelta(minutes=15) *)
AlertCooldown == 900

(* Alert.miner_ip = None *)
NoIP == ""

AlertTypes == {"miner_offline", "miner_online"}

AlertDevices == {"m1", NoIP}

AlertDeltas == {450, 899}

Alert(alert_type, miner_ip) == [alert_type |-> alert_type, miner_ip |-> miner_ip]

(* f"{alert.alert_type.value}:{alert.miner_ip or 'global'}": no AlertType
   value holds a colon, so the string is the pair of its two parts *)
AlertKey(alert) ==
    <<alert.alert_type, IF alert.miner_ip = NoIP THEN "global" ELSE alert.miner_ip>>

(* A cooldown test that still holds an alert back at exactly alert_cooldown *)
should_send_inclusive(alerts, alert, t) ==
    LET key == AlertKey(alert)
    IN  ~(key \in DOMAIN alerts /\ t - alerts[key] <= AlertCooldown)

(* AlertManager.should_send_alert, as a function of last_alerts and now *)
should_send(alerts, alert, t) ==
    LET key == AlertKey(alert)
    IN  ~(key \in DOMAIN alerts /\ t - alerts[key] < AlertCooldown)

AlertRet(op, alert, result) == [op |-> op, alert |-> alert, result |-> result]

NoAlertRet == AlertRet("none", Alert("", NoIP), FALSE)

should_send_alert(alert) ==
    /\ alert_ret' = AlertRet("should_send_alert", alert, should_send(last_alerts, alert, now))
    /\ UNCHANGED <<last_alerts, thermalVars>>

(* AlertManager.send_alert: result is whether the send was recorded *)
send_alert(alert) ==
    LET key == AlertKey(alert)
        sent == should_send(last_alerts, alert, now)
    IN  /\ last_alerts' =
              IF sent
              THEN [k \in DOMAIN last_alerts \cup {key} |->
                       IF k = key THEN now ELSE last_alerts[k]]
              ELSE last_alerts
        /\ alert_ret' = AlertRet("send_alert", alert, sent)
        /\ UNCHANGED thermalVars

(* datetime.now() advancing between two AlertManager calls *)
AlertTick(d) ==
    /\ ticks < MaxTicks
    /\ now' = now + d
    /\ ticks' = ticks + 1
    /\ UNCHANGED <<thermal_states, global_auto_tune_enabled, ret, alertVars>>

-----------------------------------------------------------------------------
(* src/app.py, src/miners/detector.py: the device registry of FleetManager
   and the poll of one device (update_miner inside update_all_miners).
   A status dict is the record of the fields the poll reads; the other
   telemetry fields (hashrate, power, share counters) travel with them. *)

MaxPolls == 2

(* dict.get() of a key the dict does not have *)
NoValue == -1

FleetIPs == {"m1"}

FleetTypes == {"BitAxe", "Antminer"}

PollGaps == {600}

(* config.is_esp_miner: a type key, or a display name holding BITAXE,
   NERDAXE, NERDQAXE, NERDOCTAXE or LUCKYMINER *)
is_esp_miner(miner_type) ==
    miner_type \in {"BitAxe", "BitAxe Max", "BitAxe Ultra", "BitAxe Supra",
                    "BitAxe Gamma", "NerdAxe", "NerdQAxe+", "NerdQAxe++",
                    "NerdOctaxe", "LuckyMiner"}

(* config.OVERHEAT_RECOVERY_TEMP, degrees C *)
OVERHEAT_RECOVERY_TEMP == 50

(* config.ALERT_COOLDOWN, seconds *)
ALERT_COOLDOWN == 900

(* ThermalManager.get_stock_settings(miner_type)['frequency'] *)
get_stock_frequency(miner_type) == MINER_PROFILES(miner_type).default_freq

(* ThermalManager._get_profile(miner_type) *)
get_profile(miner_type) == MINER_PROFILES(miner_type)

(* A status dict without the key 'error' *)
NoError == ""

Status(status, temperature, frequency, fan_speed) ==
    [status |-> status, temperature |-> temperature,
     frequency |-> frequency, fan_speed |-> fan_speed, error |-> NoError]

(* Miner.last_status = None *)
NoStatus == Status("none", NoValue, NoValue, NoValue)

(* How the HTTP request of get_status ends when it does not succeed *)
FailedResponses == {"timeout", "connection_error"}

(* A get_status that reports a timeout like any other request error *)
get_status_timeout_as_error(response, reading) ==
    IF response = "ok"
    THEN reading
    ELSE [Status("error", NoValue, NoValue, NoValue) EXCEPT !.error = response]

(* BitaxeAPIHandler.get_status: the reading of a request that succeeded,
   {'status': 'offline', 'error': 'timeout'} on requests.exceptions.Timeout,
   {'status': 'error', 'error': str(e)} on any other exception *)
get_status(response, reading) ==
    IF response = "ok"
    THEN reading
    ELSE IF response = "timeout"
         THEN [Status("offline", NoValue, NoValue, NoValue) EXCEPT !.error = "timeout"]
         ELSE [Status("error", NoValue, NoValue, NoValue) EXCEPT !.error = response]

FailedStatuses == {get_status(response, NoStatus) : response \in FailedResponses}

PollTemps == {45, 66, 72}

PollFrequencies == {440, 450}

RespondingStatuses ==
    {Status("online", temp, 450, 60) : temp \in PollTemps}
    \cup {Status("overheating", 66, 450, 60)}
    \cup {Status("online", 45, f, 60) : f \in PollFrequencies}
    \cup {Status("overheated", temp, 450, 60) : temp \in PollTemps}
    \cup {Status(st, NoValue, 450, NoValue) : st \in {"online", "overheated"}}

(* The status a device returns to the update_status call of detect() *)
DiscoverStatuses ==
    {Status("online", 45, 450, 60), Status("overheated", 45, 450, 60)}

(* What a poll meets: the status the device returns, whether a restart
   request succeeds, config.OVERHEAT_AUTO_REBOOT, the fan speed the
   controller asks for and whether the store raises while saving stats *)
PollInput(status, restart_ok, auto_reboot, target_fan, fault) ==
    [status |-> status, restart_ok |-> restart_ok, auto_reboot |-> auto_reboot,
     target_fan |-> target_fan, fault |-> fault]

PollInputs ==
    {PollInput(st, FALSE, FALSE, NoValue, FALSE) : st \in FailedStatuses}
    \cup {PollInput(st, ok, ar, NoValue, FALSE) :
            st \in {s \in RespondingStatuses :
                      s.status = "overheated" /\ s.temperature # NoValue},
            ok \in BOOLEAN, ar \in BOOLEAN}
    \cup {PollInput(Status("overheated", NoValue, 450, NoValue), TRUE, TRUE, NoValue, FALSE),
          PollInput(Status("overheated", 45, 450, 60), FALSE, TRUE, NoValue, TRUE),
          PollInput(Status("online", 45, 450, 60), FALSE, FALSE, NoValue, TRUE)}
    \cup {PollInput(st, FALSE, FALSE, fan, FALSE) :
            st \in {s \in RespondingStatuses : s.status # "overheated"},
            fan \in {NoValue, 80}}

Miner(miner_type, last_status) == [type |-> miner_type, last_status |-> last_status]

Command(cmd, setting, value) == [cmd |-> cmd, setting |-> setting, value |-> value]

DropKey(f, k) == [x \in (DOMAIN f) \ {k} |-> f[x]]

PutKey(f, k, v) == [x \in (DOMAIN f) \cup {k} |-> IF x = k THEN v ELSE f[x]]

NoCalc == [freq |-> NoValue, reason |-> ""]

(* What an operation did: prev_status is the status the device had before
   it, was_online the flag before it *)
PollRecord(op, ip, prev_status, was_online, alerts, commands, raised, calc) ==
    [op |-> op, ip |-> ip, prev_status |-> prev_status,
     was_online |-> was_online, alerts |-> alerts, commands |-> commands,
     raised |-> raised, calc |-> calc]

NoPoll == PollRecord("none", "", "none", FALSE, <<>>, <<>>, FALSE, NoCalc)

(* "emergency" in reason.lower() or "critical" in reason.lower() *)
is_emergency_reason(reason) ==
    reason \in {"Emergency cooldown in progress", "EMERGENCY: Critical temp"}

(* ThermalManager.get_thermal_status: the keys the poll looks at *)
get_thermal_status(state) == [in_cooldown |-> state.in_emergency_cooldown]

(* thermal_state.get('in_emergency_cooldown') *)
get_in_emergency_cooldown(thermal_state) ==
    IF "in_emergency_cooldown" \in DOMAIN thermal_state
    THEN thermal_state.in_emergency_cooldown
    ELSE FALSE

(* _apply_stock_settings: the commands it sends *)
apply_stock_settings(miner_type) ==
    IF is_esp_miner(miner_type) /\ get_stock_frequency(miner_type) > 0
    THEN <<Command("apply_settings", "frequency", get_stock_frequency(miner_type))>>
    ELSE <<>>

(* _apply_frequency: the commands it sends *)
apply_frequency(miner_type, target_freq) ==
    IF is_esp_miner(miner_type)
    THEN <<Command("apply_settings", "frequency",
                   IF target_freq = 0 THEN 400 ELSE target_freq)>>
    ELSE <<>>

(* _apply_fan_speed: the commands it sends *)
apply_fan_speed(miner_type, target_fan) ==
    IF is_esp_miner(miner_type)
    THEN <<Command("apply_settings", "fanspeed", target_fan)>>
    ELSE <<>>

(* update_miner, transition detection: the alerts requested for a poll that
   found miner_status when the flag was_online had the given value *)
transition_alerts(miner_status, was_online) ==
    IF miner_status \in {"online", "overheating", "overheated"}
    THEN IF miner_status = "online" /\ ~was_online THEN <<"miner_online">> ELSE <<>>
    ELSE IF was_online THEN <<"miner_offline">> ELSE <<>>

(* A flag that counts every responding device, overheated ones too *)
next_was_online_if_responding(miner_status, was_online) ==
    miner_status \in {"online", "overheating", "overheated"}

(* update_miner: was_online after the poll *)
next_was_online(miner_status, was_online) ==
    IF miner_status \in {"online", "overheating", "overheated"}
    THEN miner_status \in {"online", "overheating"}
    ELSE FALSE

(* An overheat recovery whose successful reboot leaves the tracking entry *)
overheat_recovery_keeps_entry(ip, miner_type, miner_status, temp, states, t, auto_reboot, restart_ok) ==
    IF miner_status = "overheated"
    THEN LET tracked == IF ip \in DOMAIN states THEN states ELSE PutKey(states, ip, t)
             reboot == auto_reboot /\ temp <= OVERHEAT_RECOVERY_TEMP
         IN  [states |-> tracked,
              alerts |-> IF reboot /\ restart_ok THEN <<"overheat_recovery">> ELSE <<>>,
              commands |-> IF reboot THEN <<Command("restart", "", NoValue)>> ELSE <<>>]
    ELSE IF ip \in DOMAIN states
         THEN [states |-> DropKey(states, ip), alerts |-> <<>>,
               commands |-> apply_stock_settings(miner_type)]
         ELSE [states |-> states, alerts |-> <<>>, commands |-> <<>>]

(* update_miner, overheat recovery: the tracking entries it leaves, the
   alerts it requests and the commands it sends *)
overheat_recovery(ip, miner_type, miner_status, temp, states, t, auto_reboot, restart_ok) ==
    IF miner_status = "overheated"
    THEN LET tracked == IF ip \in DOMAIN states THEN states ELSE PutKey(states, ip, t)
             reboot == auto_reboot /\ temp <= OVERHEAT_RECOVERY_TEMP
         IN  IF reboot
             THEN IF restart_ok
                  THEN [states |-> DropKey(tracked, ip),
                        alerts |-> <<"overheat_recovery">>,
                        commands |-> <<Command("restart", "", NoValue)>>]
                  ELSE [states |-> tracked, alerts |-> <<>>,
                        commands |-> <<Command("restart", "", NoValue)>>]
             ELSE [states |-> tracked, alerts |-> <<>>, commands |-> <<>>]
    ELSE IF ip \in DOMAIN states
         THEN [states |-> DropKey(states, ip), alerts |-> <<>>,
               commands |-> apply_stock_settings(miner_type)]
         ELSE [states |-> states, alerts |-> <<>>, commands |-> <<>>]

(* update_miner, the frequency command: whether the target is applied *)
frequency_applies(target_freq, status) ==
    /\ target_freq # 0
    /\ target_freq # (IF status.frequency = NoValue THEN 0 ELSE status.frequency)

(* Auto-tuning that sends the frequency command before the fan-speed command *)
thermal_control_frequency_first(ip, miner_type, status, alert_state, tstates, t, global_enabled, target_fan) ==
    LET temp == status.temperature
        registered == ip \in DOMAIN tstates
        profile == get_profile(miner_type)
        in_emergency == registered /\ get_in_emergency_cooldown(get_thermal_status(tstates[ip]))
        high == /\ registered
                /\ ~in_emergency
                /\ temp >= profile.warning_temp
                /\ (alert_state.last_temp_alert = NoTime
                    \/ t - alert_state.last_temp_alert > ALERT_COOLDOWN)
        current_fan == IF status.fan_speed \in {NoValue, 0} THEN 50 ELSE status.fan_speed
        fan == target_fan # NoValue /\ target_fan # current_fan
    IN  LET out == CHOOSE o \in {IF registered
                                 THEN calculate(tstates[ip], t, global_enabled)
                                 ELSE [state |-> NoValue, freq |-> 0,
                                       reason |-> "Miner not registered"]} : TRUE
            applies == frequency_applies(out.freq, status)
        IN
        [thermal_states |-> IF registered THEN [tstates EXCEPT ![ip] = out.state] ELSE tstates,
         alert_state |-> IF high THEN [alert_state EXCEPT !.last_temp_alert = t] ELSE alert_state,
         alerts |-> (IF in_emergency THEN <<"emergency_shutdown">>
                     ELSE IF high THEN <<"high_temperature">> ELSE <<>>)
                    \o (IF applies /\ is_emergency_reason(out.reason)
                        THEN <<"frequency_adjusted">> ELSE <<>>),
         commands |-> (IF applies THEN apply_frequency(miner_type, out.freq) ELSE <<>>)
                      \o (IF fan THEN apply_fan_speed(miner_type, target_fan) ELSE <<>>),
         calc |-> [freq |-> out.freq, reason |-> out.reason],
         last_status |-> IF fan /\ is_esp_miner(miner_type)
                         THEN [status EXCEPT !.fan_speed = target_fan]
                         ELSE status]

(* update_miner, alerts and auto-tuning of a device that is not overheated *)
thermal_control(ip, miner_type, status, alert_state, tstates, t, global_enabled, target_fan) ==
    LET temp == status.temperature
        registered == ip \in DOMAIN tstates
        profile == get_profile(miner_type)
        in_emergency == registered /\ get_in_emergency_cooldown(get_thermal_status(tstates[ip]))
        high == /\ registered
                /\ ~in_emergency
                /\ temp >= profile.warning_temp
                /\ (alert_state.last_temp_alert = NoTime
                    \/ t - alert_state.last_temp_alert > ALERT_COOLDOWN)
        current_fan == IF status.fan_speed \in {NoValue, 0} THEN 50 ELSE status.fan_speed
        fan == target_fan # NoValue /\ target_fan # current_fan
    IN  LET out == CHOOSE o \in {IF registered
                                 THEN calculate(tstates[ip], t, global_enabled)
                                 ELSE [state |-> NoValue, freq |-> 0,
                                       reason |-> "Miner not registered"]} : TRUE
            applies == frequency_applies(out.freq, status)
        IN
        [thermal_states |-> IF registered THEN [tstates EXCEPT ![ip] = out.state] ELSE tstates,
         alert_state |-> IF high THEN [alert_state EXCEPT !.last_temp_alert = t] ELSE alert_state,
         alerts |-> (IF in_emergency THEN <<"emergency_shutdown">>
                     ELSE IF high THEN <<"high_temperature">> ELSE <<>>)
                    \o (IF applies /\ is_emergency_reason(out.reason)
                        THEN <<"frequency_adjusted">> ELSE <<>>),
         commands |-> (IF fan THEN apply_fan_speed(miner_type, target_fan) ELSE <<>>)
                      \o (IF applies THEN apply_frequency(miner_type, out.freq) ELSE <<>>),
         calc |-> [freq |-> out.freq, reason |-> out.reason],
         last_status |-> IF fan /\ is_esp_miner(miner_type)
                         THEN [status EXCEPT !.fan_speed = target_fan]
                         ELSE status]

(* Miner.update_status: last_status is replaced by what get_status returned *)
update_status(miner, status) == [miner EXCEPT !.last_status = status]

(* update_all_miners.update_miner: one poll of the device ip (mock miners,
   which are not polled, aside) *)
update_miner(ip, in) ==
    /\ ip \in DOMAIN miners
    /\ polls < MaxPolls
    /\ \E miner \in {update_status(miners[ip], in.status)} :
       LET status == miner.last_status
           state0 == IF ip \in DOMAIN miner_alert_states
                     THEN miner_alert_states[ip]
                     ELSE [was_online |-> FALSE, last_temp_alert |-> NoTime]
           miner_status == status.status
           is_responding == miner_status \in {"online", "overheating", "overheated"}
           temp == status.temperature
           state1 == [state0 EXCEPT !.was_online = next_was_online(miner_status, @)]
           feed == is_responding /\ ~in.fault /\ temp # NoValue
       IN
       \E rec \in {IF feed
                   THEN overheat_recovery(ip, miner.type, miner_status, temp,
                                          overheat_recovery_states, now,
                                          in.auto_reboot, in.restart_ok)
                   ELSE [states |-> overheat_recovery_states, alerts |-> <<>>,
                         commands |-> <<>>]} :
       LET ts1 == IF feed /\ ip \in DOMAIN thermal_states
                  THEN [thermal_states EXCEPT ![ip] = update_temperature(@, temp)]
                  ELSE thermal_states
       IN
       \E ctl \in {IF feed /\ miner_status # "overheated"
                   THEN thermal_control(ip, miner.type, status, state1, ts1, now,
                                        global_auto_tune_enabled, in.target_fan)
                   ELSE [thermal_states |-> ts1, alert_state |-> state1,
                         alerts |-> <<>>, commands |-> <<>>, calc |-> NoCalc,
                         last_status |-> status]} :
           /\ miners' = [miners EXCEPT ![ip] = update_status(miner, ctl.last_status)]
           /\ miner_alert_states' = PutKey(miner_alert_states, ip, ctl.alert_state)
           /\ overheat_recovery_states' = rec.states
           /\ thermal_states' = ctl.thermal_states
           /\ ret' = IF ctl.calc = NoCalc
                     THEN NoRet
                     ELSE Ret("calculate_optimal_frequency", ip, ctl.calc.freq,
                              ctl.calc.reason)
           /\ poll' = PollRecord("update_miner", ip, miners[ip].last_status.status,
                                 state0.was_online,
                                 transition_alerts(miner_status, state0.was_online)
                                    \o rec.alerts \o ctl.alerts,
                                 rec.commands \o ctl.commands,
                                 is_responding /\ in.fault, ctl.calc)
    /\ polls' = polls + 1
    /\ UNCHANGED <<now, ticks, global_auto_tune_enabled>>

(* discover_miners, for one address at which detect() found a device *)
discover_miner(ip, miner_type, status) ==
    /\ miners' = PutKey(miners, ip, Miner(miner_type, status))
    /\ thermal_states' = IF Registered(ip)
                         THEN thermal_states
                         ELSE thermal_states @@ (ip :> ThermalState(miner_type))
    /\ poll' = PollRecord("discover_miners", ip, "none", FALSE, <<>>,
                          apply_stock_settings(miner_type), FALSE, NoCalc)
    /\ ret' = NoRet
    /\ UNCHANGED <<now, ticks, global_auto_tune_enabled, miner_alert_states,
                   overheat_recovery_states, polls>>

(* DELETE /api/miner/<ip> for a device of the fleet *)
delete_miner(ip) ==
    /\ ip \in DOMAIN miners
    /\ miners' = DropKey(miners, ip)
    /\ poll' = PollRecord("delete_miner", ip, miners[ip].last_status.status,
                          FALSE, <<>>, <<>>, FALSE, NoCalc)
    /\ UNCHANGED <<thermalVars, miner_alert_states, overheat_recovery_states, polls>>

(* The address lists a batch removal is asked for *)
BatchIPs == (SUBSET FleetIPs) \ {{}}

(* POST /api/batch/remove: every listed device of the fleet is removed *)
batch_remove(ips) ==
    /\ ips # {}
    /\ miners' = [x \in (DOMAIN miners) \ ips |-> miners[x]]
    /\ poll' = PollRecord("batch_remove", "", "none", FALSE, <<>>, <<>>, FALSE, NoCalc)
    /\ UNCHANGED <<thermalVars, miner_alert_states, overheat_recovery_states, polls>>

(* A schedule override sent to every device that has a status, whatever its
   family *)
schedule_targets_any_family(ms) ==
    {ip \in DOMAIN ms : ms[ip].last_status # NoStatus}

(* _apply_mining_schedule: the devices its loop sends the target to *)
schedule_targets(ms) ==
    {ip \in DOMAIN ms : is_esp_miner(ms[ip].type) /\ ms[ip].last_status # NoStatus}

(* The target frequencies should_mine_now returns for a schedule in force *)
FleetScheduleTargets == {450}

RECURSIVE CommandToEach(_, _)
CommandToEach(ips, command) ==
    IF ips = {}
    THEN <<>>
    ELSE LET ip == CHOOSE x \in ips : TRUE
         IN  <<command>> \o CommandToEach(ips \ {ip}, command)

(* _apply_mining_schedule, at the start of a tick, when should_mine_now
   returns a target frequency above 0 *)
apply_mining_schedule(target_frequency) ==
    /\ target_frequency > 0
    /\ poll' = PollRecord("apply_mining_schedule", "", "none", FALSE, <<>>,
                          CommandToEach(schedule_targets(miners),
                                        Command("apply_settings", "frequency",
                                                target_frequency)),
                          FALSE, NoCalc)
    /\ UNCHANGED <<thermalVars, miners, miner_alert_states, overheat_recovery_states, polls>>

(* Time passes between two polls *)
FleetWait(d) ==
    /\ ticks < MaxTicks
    /\ now' = now + d
    /\ ticks' = ticks + 1
    /\ ret' = NoRet
    /\ UNCHANGED <<thermal_states, global_auto_tune_enabled, fleetVars>>

-----------------------------------------------------------------------------
(* The monitoring loop, the poll tasks of a tick and the registry lock *)

(* Iterations of monitor_loop a run may begin *)
MaxIterations == 2

MonDevices == {"m1", "m2"}

(* mining_scheduler.should_mine_now()'s target_frequency; 0 means no change *)
ScheduleTargets == {0, 450}

PollOutcomes == {"ok", "raised"}

(* A network call to a device, made by the named thread *)
NetCall(thread, call) == [thread |-> thread, call |-> call]

(* A loop that never looks at the flag *)
loop_continues_always(active) == TRUE

(* while self.monitoring_active *)
loop_continues(active) == active

(* A tick in which an exception in one poll ends the sibling polls *)
after_poll_aborting(fs, ip, outcome) ==
    IF outcome = "raised"
    THEN [x \in DOMAIN fs |-> "returned"]
    ELSE [fs EXCEPT ![ip] = "returned"]

(* update_miner's try/except and the try/except around future.result():
   the task of ip returns, however its body ended *)
after_poll(fs, ip, outcome) == [fs EXCEPT ![ip] = "returned"]

(* for future in as_completed(futures), with no timeout, and the exit of the
   executor's with block: every task has returned *)
all_completed(fs) == \A ip \in DOMAIN fs : fs[ip] = "returned"

(* monitor_loop's try/except around the body of an iteration *)
after_body(raised) == "sleep"

start_monitoring ==
    /\ ~monitoring_active
    /\ monitoring_thread \in {"none", "stopped"}
    /\ monitoring_active' = TRUE
    /\ monitoring_thread' = "head"
    /\ stop_called' = "no"
    /\ UNCHANGED <<iteration, futures, tick_log, lock, net, api_pc>>

(* stop_monitoring: the flag is cleared; join(timeout=5) only makes the
   caller wait *)
stop_monitoring ==
    /\ monitoring_active' = FALSE
    /\ stop_called' = IF stop_called = "no" THEN monitoring_thread ELSE stop_called
    /\ UNCHANGED <<monitoring_thread, iteration, futures, tick_log, lock, net, api_pc>>

(* monitor_loop: the test of the while loop *)
loop_head ==
    /\ monitoring_thread = "head"
    /\ IF loop_continues(monitoring_active)
       THEN /\ iteration < MaxIterations
            /\ iteration' = iteration + 1
            /\ monitoring_thread' = "schedule"
       ELSE /\ monitoring_thread' = "stopped"
            /\ UNCHANGED iteration
    /\ UNCHANGED <<monitoring_active, futures, tick_log, lock, net, api_pc, stop_called>>

(* _apply_mining_schedule: with a target frequency it takes the lock and
   calls apply_settings on the devices *)
apply_mining_schedule_begin(target_frequency) ==
    /\ monitoring_thread = "schedule"
    /\ IF target_frequency > 0
       THEN /\ lock = ""
            /\ lock' = "monitor"
            /\ net' = net \cup {NetCall("monitor", "apply_settings")}
            /\ monitoring_thread' = "schedule_call"
       ELSE /\ monitoring_thread' = "submit"
            /\ UNCHANGED <<lock, net>>
    /\ UNCHANGED <<monitoring_active, iteration, futures, tick_log, api_pc, stop_called>>

(* _apply_mining_schedule: the calls have returned (or raised, which is
   caught); the with block releases the lock *)
apply_mining_schedule_end ==
    /\ monitoring_thread = "schedule_call"
    /\ net' = net \ {NetCall("monitor", "apply_settings")}
    /\ lock' = ""
    /\ monitoring_thread' = "submit"
    /\ UNCHANGED <<monitoring_active, iteration, futures, tick_log, api_pc, stop_called>>

(* update_all_miners: one task per device is submitted to an executor with
   as many workers as devices; each task calls update_status *)
update_all_miners_begin ==
    /\ monitoring_thread = "submit"
    /\ futures' = [ip \in MonDevices |-> "running"]
    /\ net' = net \cup {NetCall(ip, "update_status") : ip \in MonDevices}
    /\ monitoring_thread' = "polling"
    /\ UNCHANGED <<monitoring_active, iteration, tick_log, lock, api_pc, stop_called>>

(* The task of ip ends: its poll went through, or raised *)
poll_task(ip, outcome) ==
    /\ futures[ip] = "running"
    /\ futures' = after_poll(futures, ip, outcome)
    /\ net' = net \ {NetCall(ip, "update_status")}
    /\ tick_log' = [tick_log EXCEPT ![ip] =
                       [polled |-> iteration,
                        raised |-> IF outcome = "raised" THEN iteration ELSE @.raised]]
    /\ UNCHANGED <<monitoring_active, monitoring_thread, iteration, lock, api_pc, stop_called>>

(* The poll of ip never returns *)
poll_hangs(ip) ==
    /\ futures[ip] = "running"
    /\ futures' = [futures EXCEPT ![ip] = "hung"]
    /\ UNCHANGED <<monitoring_active, monitoring_thread, iteration, tick_log, lock, net,
                   api_pc, stop_called>>

(* update_all_miners returns and the rest of the iteration's body runs
   (raised: one of its steps raised) *)
finish_tick(raised) ==
    /\ monitoring_thread = "polling"
    /\ all_completed(futures)
    /\ monitoring_thread' = after_body(raised)
    /\ UNCHANGED <<monitoring_active, iteration, futures, tick_log, lock, net, api_pc,
                   stop_called>>

(* The sleep between iterations ends: UPDATE_INTERVAL seconds have passed
   or the flag was found cleared *)
sleep_done ==
    /\ monitoring_thread = "sleep"
    /\ monitoring_thread' = "head"
    /\ UNCHANGED <<monitoring_active, iteration, futures, tick_log, lock, net, api_pc,
                   stop_called>>

(* POST /api/miner/<ip>/restart: miner.restart() inside with fleet.lock *)
restart_miner_begin ==
    /\ api_pc = "idle"
    /\ lock = ""
    /\ lock' = "api"
    /\ net' = net \cup {NetCall("api", "restart")}
    /\ api_pc' = "restart"
    /\ UNCHANGED <<monitoring_active, monitoring_thread, iteration, futures, tick_log,
                   stop_called>>

restart_miner_end ==
    /\ api_pc = "restart"
    /\ net' = net \ {NetCall("api", "restart")}
    /\ lock' = ""
    /\ api_pc' = "idle"
    /\ UNCHANGED <<monitoring_active, monitoring_thread, iteration, futures, tick_log,
                   stop_called>>

(* discover_miners: detect() runs without the lock *)
discover_miners_detect ==
    /\ api_pc = "idle"
    /\ net' = net \cup {NetCall("api", "detect")}
    /\ api_pc' = "detect"
    /\ UNCHANGED <<monitoring_active, monitoring_thread, iteration, futures, tick_log,
                   lock, stop_called>>

(* discover_miners: the device found is registered under the lock, and
   _apply_stock_settings is called there *)
discover_miners_register ==
    /\ api_pc = "detect"
    /\ lock = ""
    /\ lock' = "api"
    /\ net' = (net \ {NetCall("api", "detect")}) \cup {NetCall("api", "apply_settings")}
    /\ api_pc' = "register"
    /\ UNCHANGED <<monitoring_active, monitoring_thread, iteration, futures, tick_log,
                   stop_called>>

discover_miners_end ==
    /\ api_pc = "register"
    /\ net' = net \ {NetCall("api", "apply_settings")}
    /\ lock' = ""
    /\ api_pc' = "idle"
    /\ UNCHANGED <<monitoring_active, monitoring_thread, iteration, futures, tick_log,
                   stop_called>>

-----------------------------------------------------------------------------
(* update_all_miners reading the registry while request threads change it *)

RegistryIPs == {"m1", "m2"}

RegistryTypes == {"BitAxe"}

RegistryStatuses == {Status("online", 45, 450, 60)}

(* if not self.miners: return *)
update_all_miners_check ==
    /\ tick_pc = "idle"
    /\ IF DOMAIN miners = {}
       THEN /\ tick_result' = "empty"
            /\ UNCHANGED tick_pc
       ELSE /\ tick_pc' = "executor"
            /\ tick_result' = "none"
    /\ tick_seen' = {}
    /\ UNCHANGED tick_len

(* ThreadPoolExecutor(max_workers=len(self.miners)): ValueError when the
   registry has been emptied since the check; otherwise the iteration over
   self.miners.values() begins *)
update_all_miners_executor ==
    /\ tick_pc = "executor"
    /\ IF DOMAIN miners = {}
       THEN /\ tick_pc' = "idle"
            /\ tick_result' = "ValueError"
            /\ UNCHANGED tick_len
       ELSE /\ tick_pc' = "iterating"
            /\ tick_len' = Cardinality(DOMAIN miners)
            /\ UNCHANGED tick_result
    /\ UNCHANGED tick_seen

(* One step of the comprehension over self.miners.values(): RuntimeError
   (dictionary changed size during iteration) when the size differs from the
   one the iteration began with; otherwise the next device's poll is
   submitted, or the iteration ends *)
update_all_miners_submit ==
    /\ tick_pc = "iterating"
    /\ IF Cardinality(DOMAIN miners) # tick_len
       THEN /\ tick_pc' = "idle"
            /\ tick_result' = "RuntimeError"
            /\ UNCHANGED tick_seen
       ELSE IF DOMAIN miners \subseteq tick_seen
       THEN /\ tick_pc' = "idle"
            /\ tick_result' = "done"
            /\ UNCHANGED tick_seen
       ELSE /\ \E ip \in (DOMAIN miners) \ tick_seen : tick_seen' = tick_seen \cup {ip}
            /\ UNCHANGED <<tick_pc, tick_result>>
    /\ UNCHANGED tick_len

RegistryInit ==
    /\ tick_pc = "idle"
    /\ tick_len = 0
    /\ tick_seen = {}
    /\ tick_result = "none"

LoopsInit ==
    /\ loop_threads = <<>>
    /\ join_pc = "idle"

-----------------------------------------------------------------------------
(* start_monitoring and stop_monitoring called one after another while the
   monitor_loop threads they created run *)

(* Threads a run may create *)
MaxThreads == 2

(* Ticks one thread may begin *)
MaxLoopTicks == 2

LoopThread(pc, n) == [pc |-> pc, ticks |-> n]

otherMonVars == <<monitoring_thread, iteration, futures, tick_log, lock, net, api_pc,
                  stop_called>>

(* start_monitoring: returns at once when the flag is set; otherwise sets it
   and starts a new Thread running monitor_loop *)
start_monitoring_call ==
    /\ join_pc = "idle"
    /\ IF monitoring_active
       THEN UNCHANGED <<monitoring_active, loop_threads>>
       ELSE /\ Len(loop_threads) < MaxThreads
            /\ monitoring_active' = TRUE
            /\ loop_threads' = Append(loop_threads, LoopThread("head", 0))
    /\ UNCHANGED <<join_pc, otherMonVars>>

(* stop_monitoring: clears the flag and joins self.monitoring_thread, the
   thread created last *)
stop_monitoring_call ==
    /\ join_pc = "idle"
    /\ monitoring_active' = FALSE
    /\ join_pc' = IF loop_threads = <<>> THEN "idle" ELSE "join"
    /\ UNCHANGED <<loop_threads, otherMonVars>>

(* join(timeout=5) returns because the thread has ended *)
join_returns ==
    /\ join_pc = "join"
    /\ loop_threads[Len(loop_threads)].pc = "stopped"
    /\ join_pc' = "idle"
    /\ UNCHANGED <<loop_threads, monitoring_active, otherMonVars>>

(* join(timeout=5) returns after 5 s with the thread still inside a tick *)
join_times_out ==
    /\ join_pc = "join"
    /\ loop_threads[Len(loop_threads)].pc = "tick"
    /\ join_pc' = "idle"
    /\ UNCHANGED <<loop_threads, monitoring_active, otherMonVars>>

(* monitor_loop of thread i: while self.monitoring_active *)
thread_loop_head(i) ==
    /\ loop_threads[i].pc = "head"
    /\ IF loop_continues(monitoring_active)
       THEN /\ loop_threads[i].ticks < MaxLoopTicks
            /\ loop_threads' = [loop_threads EXCEPT ![i] = LoopThread("tick", @.ticks + 1)]
       ELSE loop_threads' = [loop_threads EXCEPT ![i].pc = "stopped"]
    /\ UNCHANGED <<join_pc, monitoring_active, otherMonVars>>

(* monitor_loop of thread i: the body of the iteration has run *)
thread_tick_done(i) ==
    /\ loop_threads[i].pc = "tick"
    /\ loop_threads' = [loop_threads EXCEPT ![i].pc = "sleep"]
    /\ UNCHANGED <<join_pc, monitoring_active, otherMonVars>>

(* monitor_loop of thread i: the sleep ends, by time or by the flag *)
thread_sleep_done(i) ==
    /\ loop_threads[i].pc = "sleep"
    /\ loop_threads' = [loop_threads EXCEPT ![i].pc = "head"]
    /\ UNCHANGED <<join_pc, monitoring_active, otherMonVars>>

(* _apply_mining_schedule at an instant: the target should_mine_now resolves
   from the stored rows, sent to the devices when it is positive *)
apply_mining_schedule_now(day, minutes) ==
    /\ should_mine_now(day, minutes)
    /\ IF sched_ret'.target_frequency > 0
       THEN apply_mining_schedule(sched_ret'.target_frequency)
       ELSE /\ poll' = PollRecord("apply_mining_schedule", "", "none", FALSE, <<>>, <<>>,
                                  FALSE, NoCalc)
            /\ UNCHANGED <<thermalVars, miners, miner_alert_states,
                           overheat_recovery_states, polls>>

(* The schedule rows of the override: a cap, a row with target 0 and a cap
   for one day only *)
OverrideRows ==
    {Schedule(NoDay, Str(0, 0), Str(14, 0), 450),
     Schedule(NoDay, Str(0, 0), Str(14, 0), 0),
     Schedule("Tuesday", Str(14, 0), Str(0, 0), 500)}

OverrideDays == {"Monday", "Tuesday"}

(* The 'temp' entry of the JSON a device answers with: absent, a number, or
   a value float() does not accept *)
Reading(kind, value) == [kind |-> kind, value |-> value]

Answer(temp, overheat_mode) == [temp |-> temp, overheat_mode |-> overheat_mode]

(* BitaxeAPIHandler.get_status on an answer that arrived: current_temp is
   float(data.get('temp', 0)), so an absent entry reads as 0 and a value
   float() rejects raises, which the handler turns into status 'error' *)
bitaxe_get_status(data) ==
    IF data.temp.kind = "malformed"
    THEN [Status("error", NoValue, NoValue, NoValue) EXCEPT !.error = "ValueError"]
    ELSE LET current_temp == IF data.temp.kind = "missing" THEN 0 ELSE data.temp.value
         IN  Status(IF data.overheat_mode THEN "overheated"
                    ELSE IF current_temp >= 75 THEN "overheating" ELSE "online",
                    current_temp, 450, 60)

Answers ==
    {Answer(Reading("number", temp), FALSE) : temp \in {45, 63}}
    \cup {Answer(Reading(kind, 0), mode) : kind \in {"missing", "malformed"}, mode \in BOOLEAN}

(* One poll of a device that answered with data *)
poll_answer(ip, data) ==
    update_miner(ip, PollInput(bitaxe_get_status(data), FALSE, FALSE, NoValue, FALSE))

-----------------------------------------------------------------------------
ThermalInit ==
    /\ now = 0
    /\ ticks = 0
    /\ thermal_states = <<>>
    /\ global_auto_tune_enabled = TRUE
    /\ ret = NoRet

ScenarioIdle ==
    /\ scen_pc = "setup"
    /\ scen_out = <<>>

RateInit ==
    /\ energy_rates = <<>>
    /\ energy_config = NoConfig
    /\ rate_ret = NoRateRet

TimeRangeIdle ==
    /\ tr_windows = <<>>
    /\ tr_cur = NoProbe
    /\ tr_hits = {}

AlertInit ==
    /\ last_alerts = <<>>
    /\ alert_ret = NoAlertRet

FleetInit ==
    /\ miners = <<>>
    /\ miner_alert_states = <<>>
    /\ overheat_recovery_states = <<>>
    /\ poll = NoPoll
    /\ polls = 0

MonitorInit ==
    /\ monitoring_active = FALSE
    /\ monitoring_thread = "none"
    /\ iteration = 0
    /\ futures = [ip \in MonDevices |-> "none"]
    /\ tick_log = [ip \in MonDevices |-> [polled |-> 0, raised |-> 0]]
    /\ lock = ""
    /\ net = {}
    /\ api_pc = "idle"
    /\ stop_called = "no"

Init ==
    /\ ThermalInit /\ ScenarioIdle /\ RateInit /\ TimeRangeIdle
    /\ AlertInit /\ FleetInit /\ MonitorInit /\ ScheduleInit
    /\ RegistryInit /\ LoopsInit

notThermal == <<scenVars, rateVars, trVars, alertVars, fleetVars, monVars, schedVars, regVars, loopVars>>

Next ==
    \/ \E ip \in IPs, ty \in MinerTypes : register_miner(ip, ty) /\ UNCHANGED notThermal
    \/ \E ip \in IPs, temp \in Temps : update_miner_stats(ip, temp) /\ UNCHANGED notThermal
    \/ \E ip \in IPs : calculate_optimal_frequency(ip) /\ UNCHANGED notThermal
    \/ \E ip \in IPs, en \in BOOLEAN : set_auto_tune(ip, en) /\ UNCHANGED notThermal
    \/ \E en \in BOOLEAN : set_global_auto_tune(en) /\ UNCHANGED notThermal
    \/ \E ip \in IPs, f \in ForcedFrequencies : force_frequency(ip, f) /\ UNCHANGED notThermal
    \/ \E ip \in IPs : reset_miner(ip) /\ UNCHANGED notThermal
    \/ \E d \in Deltas : Tick(d) /\ UNCHANGED notThermal

Spec == Init /\ [][Next]_vars

(* The four-poll scenario *)
NextScenario ==
    \/ ScenSetup /\ UNCHANGED <<rateVars, trVars, alertVars, fleetVars, monVars, schedVars, regVars, loopVars>>
    \/ ScenBegin /\ UNCHANGED <<rateVars, trVars, alertVars, fleetVars, monVars, schedVars, regVars, loopVars>>
    \/ ScenSample /\ UNCHANGED <<rateVars, trVars, alertVars, fleetVars, monVars, schedVars, regVars, loopVars>>
    \/ ScenCalc /\ UNCHANGED <<rateVars, trVars, alertVars, fleetVars, monVars, schedVars, regVars, loopVars>>
    \/ \E d \in ScenGaps : ScenWait(d) /\ UNCHANGED <<rateVars, trVars, alertVars, fleetVars, monVars, schedVars, regVars, loopVars>>

SpecScenario == Init /\ [][NextScenario]_vars

(* The rate resolver over the stored rate tables *)
NextRate ==
    \/ delete_all_energy_rates /\ UNCHANGED <<thermalVars, scenVars, trVars, alertVars, fleetVars, monVars, schedVars, regVars, loopVars>>
    \/ \E rate \in RateRows :
          /\ Len(energy_rates) < MaxRows
          /\ add_energy_rate(rate)
          /\ UNCHANGED <<thermalVars, scenVars, trVars, alertVars, fleetVars, monVars, schedVars, regVars, loopVars>>
    \/ \E r \in DefaultRates : set_energy_config(r) /\ UNCHANGED <<thermalVars, scenVars, trVars, alertVars, fleetVars, monVars, schedVars, regVars, loopVars>>
    \/ \E day \in QueryDays, t \in QueryMinutes :
          get_current_rate(day, t) /\ UNCHANGED <<thermalVars, scenVars, trVars, alertVars, fleetVars, monVars, schedVars, regVars, loopVars>>
    \/ \E day \in QueryDays, t \in QueryMinutes :
          get_rate_for_timestamp(day, t) /\ UNCHANGED <<thermalVars, scenVars, trVars, alertVars, fleetVars, monVars, schedVars, regVars, loopVars>>
    \/ \E day \in QueryDays, hour \in QueryHours :
          get_rate_info_for_hour(hour, day) /\ UNCHANGED <<thermalVars, scenVars, trVars, alertVars, fleetVars, monVars, schedVars, regVars, loopVars>>

SpecRate == Init /\ [][NextRate]_vars

notRateWrite == <<thermalVars, scenVars, trVars, alertVars, fleetVars, monVars, regVars,
                  loopVars>>

(* The writers of rate windows and schedule rows, and the resolvers that
   read what they stored *)
NextRateWrite ==
    \/ \E rates \in WriteRateLists :
          set_tou_rates(rates) /\ UNCHANGED notRateWrite
    \/ \E data \in ManualBodies :
          set_manual_rates(data) /\ UNCHANGED notRateWrite
    \/ \E schedule \in ScheduleRows :
          /\ Len(mining_schedule) < MaxRows
          /\ mining_schedule_post(schedule)
          /\ UNCHANGED notRateWrite
    \/ \E day \in WriteQueryDays, t \in WriteQueryMinutes :
          get_current_rate(day, t) /\ UNCHANGED <<notRateWrite, schedVars>>
    \/ \E day \in WriteQueryDays, t \in WriteQueryMinutes :
          should_mine_now(day, t) /\ UNCHANGED notRateWrite

SpecRateWrite == Init /\ [][NextRateWrite]_vars

(* Rate windows priced below, at and above the threshold, one of them with a
   day filter *)
AutoRates ==
    {Rate(NoDay, Str(0, 0), Str(14, 0), 10, "off-peak"),
     Rate("Monday", Str(14, 0), Str(19, 0), 20, "standard"),
     Rate(NoDay, Str(14, 0), Str(19, 0), 30, "peak")}

AutoRateLists ==
    UNION {[1..n -> AutoRates] : n \in 1..MaxRows}

(* Schedule rows posted by hand, enabled and disabled *)
AutoSchedules ==
    {Schedule(NoDay, Str(8, 0), Str(9, 0), 475),
     Disabled(Schedule(NoDay, Str(8, 0), Str(9, 0), 425))}

(* max_rate_threshold of the request; the default 0.20 is 20 *)
AutoThresholds == {20}

AutoLow == {0, 400}

AutoHigh == {500}

(* The schedule built from the stored rate windows, next to rows posted by
   hand *)
NextAuto ==
    \/ \E rates \in AutoRateLists :
          set_tou_rates(rates) /\ UNCHANGED notRateWrite
    \/ \E schedule \in AutoSchedules :
          /\ Len(mining_schedule) < MaxRows
          /\ mining_schedule_post(schedule)
          /\ UNCHANGED notRateWrite
    \/ \E threshold \in AutoThresholds, low \in AutoLow, high \in AutoHigh :
          /\ create_schedule_from_rates(threshold, low, high)
          /\ UNCHANGED notRateWrite
    \/ \E day \in WriteQueryDays, t \in WriteQueryMinutes :
          should_mine_now(day, t) /\ UNCHANGED notRateWrite

SpecAuto == Init /\ [][NextAuto]_vars

(* The bodies of POST /api/energy/rates/custom: flat, and time-of-use *)
CustomStandard == {0, 12}

CustomPeak == {0, 25}

CustomOffPeak == {7}

(* A weekend window as parse_tou_schedule marks it *)
CategoryRates ==
    {Rate("weekend", Str(0, 0), Str(23, 59), 5, "off-peak")}

(* Schedule rows with a category and with a named day *)
CategorySchedules ==
    {Schedule("weekend", Str(0, 0), Str(23, 59), 575),
     Schedule("Sunday", Str(16, 0), Str(21, 0), 500)}

(* 18:00 *)
CategoryMinutes == {1080}

(* The resolvers on every day of the week, over windows whose day_of_week is
   'weekday' or 'weekend' *)
NextCategory ==
    \/ \E standard \in CustomStandard, peak \in CustomPeak, offpeak \in CustomOffPeak :
          /\ set_custom_energy_rates(standard, peak, offpeak)
          /\ UNCHANGED <<notRateWrite, schedVars>>
    \/ \E rate \in CategoryRates :
          /\ Len(energy_rates) < MaxRows
          /\ add_energy_rate(rate)
          /\ UNCHANGED <<notRateWrite, schedVars>>
    \/ \E schedule \in CategorySchedules :
          /\ Len(mining_schedule) < MaxRows
          /\ mining_schedule_post(schedule)
          /\ UNCHANGED notRateWrite
    \/ \E day \in Days, t \in CategoryMinutes :
          get_rate_for_timestamp(day, t) /\ UNCHANGED <<notRateWrite, schedVars>>
    \/ \E day \in Days, t \in CategoryMinutes :
          should_mine_now(day, t) /\ UNCHANGED notRateWrite

SpecCategory == Init /\ [][NextCategory]_vars

(* _time_in_range over window lists, at every minute of the day *)
InitTimeRange ==
    /\ ThermalInit /\ ScenarioIdle /\ RateInit /\ AlertInit /\ FleetInit /\ MonitorInit
    /\ ScheduleInit /\ RegistryInit /\ LoopsInit
    /\ tr_windows \in WindowLists
    /\ tr_cur = NoProbe
    /\ tr_hits = {}

(* The day is swept minute by minute, 00:00 to 23:59 *)
NextTimeRange ==
    LET minutes == IF tr_cur = NoProbe THEN 0 ELSE strptime(tr_cur) + 1
    IN  /\ minutes <= LastMinute
        /\ check_windows(strftime(minutes))
        /\ UNCHANGED <<thermalVars, scenVars, rateVars, alertVars, fleetVars, monVars, schedVars, regVars, loopVars>>

SpecTimeRange == InitTimeRange /\ [][NextTimeRange]_vars

(* The control loop alone: samples, calculations and the auto-tune switches,
   with no operator override (force_frequency, reset_miner) *)
NextControl ==
    \/ \E ip \in IPs, ty \in MinerTypes : register_miner(ip, ty) /\ UNCHANGED notThermal
    \/ \E ip \in IPs, temp \in Temps : update_miner_stats(ip, temp) /\ UNCHANGED notThermal
    \/ \E ip \in IPs : calculate_optimal_frequency(ip) /\ UNCHANGED notThermal
    \/ \E ip \in IPs, en \in BOOLEAN : set_auto_tune(ip, en) /\ UNCHANGED notThermal
    \/ \E en \in BOOLEAN : set_global_auto_tune(en) /\ UNCHANGED notThermal
    \/ \E d \in Deltas : Tick(d) /\ UNCHANGED notThermal

SpecControl == Init /\ [][NextControl]_vars

(* One calculate_optimal_frequency call on a device in any state of a
   bounded set: frequencies at and around the range's ends, temperatures at
   and around the profile's thresholds, trends around 1, with and without a
   previous adjustment and a cooldown (elapsed or running) *)
AdjustFrequencies == {0, 405, 410, 495, 595}

AdjustTemps == {57, 58, 62, 63, 64, 65, 67, 68, 69}

AdjustTrends == {0, 1, 2}

AdjustTimes == {629, 630}

AdjustLast == {NoTime, 600}

AdjustCooldowns == {NoTime, 0, 30}

AdjustStates ==
    {[ThermalState(ty) EXCEPT !.current_freq = f,
                              !.current_temp = temp,
                              !.last_temp = temp - trend,
                              !.temp_trend = trend,
                              !.in_emergency_cooldown = (started # NoTime),
                              !.cooldown_started = started,
                              !.auto_tune_enabled = en,
                              !.last_adjustment = last] :
        ty \in MinerTypes, f \in AdjustFrequencies, temp \in AdjustTemps,
        trend \in AdjustTrends, started \in AdjustCooldowns, en \in BOOLEAN,
        last \in AdjustLast}

AdjustInit ==
    /\ now \in AdjustTimes
    /\ ticks = 0
    /\ \E ip \in IPs, state \in AdjustStates : thermal_states = (ip :> state)
    /\ global_auto_tune_enabled \in BOOLEAN
    /\ ret = NoRet

InitAdjust ==
    /\ AdjustInit /\ ScenarioIdle /\ RateInit /\ TimeRangeIdle
    /\ AlertInit /\ FleetInit /\ MonitorInit /\ ScheduleInit
    /\ RegistryInit /\ LoopsInit

NextAdjust ==
    \E ip \in IPs : calculate_optimal_frequency(ip) /\ UNCHANGED notThermal

SpecAdjust == InitAdjust /\ [][NextAdjust]_vars

(* The operator's overrides applied to a device in any state of the bounded
   set, and to an address that is not registered *)
OperatorIPs == {"m1", "m2"}

NextOperator ==
    \/ \E ip \in OperatorIPs, f \in ForcedFrequencies :
          force_frequency(ip, f) /\ UNCHANGED notThermal
    \/ \E ip \in OperatorIPs : reset_miner(ip) /\ UNCHANGED notThermal

SpecOperator == InitAdjust /\ [][NextOperator]_vars

(* The control loop with its periodic calls: the monitoring tick samples
   every device and calls calculate_optimal_frequency on it every interval,
   so the calls and the clock keep going *)
SpecControlFair ==
    /\ SpecControl
    /\ \A ip \in IPs :
          WF_vars(calculate_optimal_frequency(ip) /\ UNCHANGED notThermal)
    /\ WF_vars(\E d \in Deltas : Tick(d) /\ UNCHANGED notThermal)

(* The alert cooldown over alert types, devices and clock steps *)
NextAlert ==
    \/ \E ty \in AlertTypes, ip \in AlertDevices :
          should_send_alert(Alert(ty, ip)) /\ UNCHANGED <<scenVars, rateVars, trVars, fleetVars, monVars, schedVars, regVars, loopVars>>
    \/ \E ty \in AlertTypes, ip \in AlertDevices :
          send_alert(Alert(ty, ip)) /\ UNCHANGED <<scenVars, rateVars, trVars, fleetVars, monVars, schedVars, regVars, loopVars>>
    \/ \E d \in AlertDeltas : AlertTick(d) /\ UNCHANGED <<scenVars, rateVars, trVars, fleetVars, monVars, schedVars, regVars, loopVars>>

SpecAlert == Init /\ [][NextAlert]_vars

(* The registry and the polls of the fleet's devices *)
NextFleet ==
    \/ \E ip \in FleetIPs, ty \in FleetTypes, st \in DiscoverStatuses :
          discover_miner(ip, ty, st) /\ UNCHANGED <<scenVars, rateVars, trVars, alertVars, monVars, schedVars, regVars, loopVars>>
    \/ \E ip \in FleetIPs, in \in PollInputs :
          update_miner(ip, in) /\ UNCHANGED <<scenVars, rateVars, trVars, alertVars, monVars, schedVars, regVars, loopVars>>
    \/ \E ip \in FleetIPs :
          delete_miner(ip) /\ UNCHANGED <<scenVars, rateVars, trVars, alertVars, monVars, schedVars, regVars, loopVars>>
    \/ \E ips \in BatchIPs :
          batch_remove(ips) /\ UNCHANGED <<scenVars, rateVars, trVars, alertVars, monVars, schedVars, regVars, loopVars>>
    \/ \E target_frequency \in FleetScheduleTargets :
          /\ apply_mining_schedule(target_frequency)
          /\ UNCHANGED <<scenVars, rateVars, trVars, alertVars, monVars, schedVars, regVars, loopVars>>
    \/ \E d \in PollGaps : FleetWait(d) /\ UNCHANGED <<scenVars, rateVars, trVars, alertVars, monVars, schedVars, regVars, loopVars>>

SpecFleet == Init /\ [][NextFleet]_vars

notRegistry == <<thermalVars, scenVars, rateVars, trVars, alertVars, fleetVars, monVars,
                 schedVars, loopVars>>

(* The monitoring thread inside update_all_miners, and request threads that
   register and remove devices under the lock *)
NextRegistry ==
    \/ \E ip \in RegistryIPs, ty \in RegistryTypes, st \in RegistryStatuses :
          /\ lock = ""
          /\ discover_miner(ip, ty, st)
          /\ UNCHANGED <<scenVars, rateVars, trVars, alertVars, monVars, schedVars, regVars, loopVars>>
    \/ \E ip \in RegistryIPs :
          /\ lock = ""
          /\ delete_miner(ip)
          /\ UNCHANGED <<scenVars, rateVars, trVars, alertVars, monVars, schedVars, regVars, loopVars>>
    \/ update_all_miners_check /\ UNCHANGED notRegistry
    \/ update_all_miners_executor /\ UNCHANGED notRegistry
    \/ update_all_miners_submit /\ UNCHANGED notRegistry

SpecRegistry == Init /\ [][NextRegistry]_vars

notLoops == <<thermalVars, scenVars, rateVars, trVars, alertVars, fleetVars, schedVars,
              regVars>>

(* The callers of start_monitoring and stop_monitoring and the threads *)
NextLoops ==
    \/ start_monitoring_call /\ UNCHANGED notLoops
    \/ stop_monitoring_call /\ UNCHANGED notLoops
    \/ join_returns /\ UNCHANGED notLoops
    \/ join_times_out /\ UNCHANGED notLoops
    \/ \E i \in DOMAIN loop_threads : thread_loop_head(i) /\ UNCHANGED notLoops
    \/ \E i \in DOMAIN loop_threads : thread_tick_done(i) /\ UNCHANGED notLoops
    \/ \E i \in DOMAIN loop_threads : thread_sleep_done(i) /\ UNCHANGED notLoops

SpecLoops == Init /\ [][NextLoops]_vars

(* The schedule override of a tick over the stored rows and the registry *)
NextOverride ==
    \/ \E schedule \in OverrideRows :
          /\ Len(mining_schedule) < MaxRows
          /\ mining_schedule_post(schedule)
          /\ UNCHANGED notRateWrite
    \/ \E ip \in RegistryIPs, ty \in FleetTypes, st \in RegistryStatuses :
          /\ discover_miner(ip, ty, st)
          /\ UNCHANGED <<scenVars, rateVars, trVars, alertVars, monVars, schedVars, regVars, loopVars>>
    \/ \E day \in OverrideDays, t \in WriteQueryMinutes :
          /\ apply_mining_schedule_now(day, t)
          /\ UNCHANGED <<scenVars, trVars, alertVars, monVars, regVars, loopVars>>

SpecOverride == Init /\ [][NextOverride]_vars

(* Polls of a device by what it answered *)
NextAnswer ==
    \/ \E ip \in FleetIPs, ty \in RegistryTypes, st \in DiscoverStatuses :
          /\ discover_miner(ip, ty, st)
          /\ UNCHANGED <<scenVars, rateVars, trVars, alertVars, monVars, schedVars, regVars, loopVars>>
    \/ \E ip \in FleetIPs, data \in Answers :
          /\ poll_answer(ip, data)
          /\ UNCHANGED <<scenVars, rateVars, trVars, alertVars, monVars, schedVars, regVars, loopVars>>
    \/ \E d \in PollGaps :
          /\ FleetWait(d)
          /\ UNCHANGED <<scenVars, rateVars, trVars, alertVars, monVars, schedVars, regVars, loopVars>>

SpecAnswer == Init /\ [][NextAnswer]_vars

notMonitor == <<thermalVars, scenVars, rateVars, trVars, alertVars, fleetVars, schedVars,
                regVars, loopVars>>

(* The steps of the monitor_loop thread *)
MonitorThread ==
    \/ loop_head
    \/ \E target_frequency \in ScheduleTargets : apply_mining_schedule_begin(target_frequency)
    \/ apply_mining_schedule_end
    \/ update_all_miners_begin
    \/ \E raised \in BOOLEAN : finish_tick(raised)
    \/ sleep_done

(* The returns of the request thread's device calls *)
ApiReturns == restart_miner_end \/ discover_miners_register \/ discover_miners_end

(* The monitoring loop, its poll tasks and a request thread *)
NextMonitor ==
    \/ start_monitoring /\ UNCHANGED notMonitor
    \/ stop_monitoring /\ UNCHANGED notMonitor
    \/ loop_head /\ UNCHANGED notMonitor
    \/ \E target_frequency \in ScheduleTargets :
          apply_mining_schedule_begin(target_frequency) /\ UNCHANGED notMonitor
    \/ apply_mining_schedule_end /\ UNCHANGED notMonitor
    \/ update_all_miners_begin /\ UNCHANGED notMonitor
    \/ \E ip \in MonDevices, outcome \in PollOutcomes :
          poll_task(ip, outcome) /\ UNCHANGED notMonitor
    \/ \E ip \in MonDevices : poll_hangs(ip) /\ UNCHANGED notMonitor
    \/ \E raised \in BOOLEAN : finish_tick(raised) /\ UNCHANGED notMonitor
    \/ sleep_done /\ UNCHANGED notMonitor
    \/ restart_miner_begin /\ UNCHANGED notMonitor
    \/ restart_miner_end /\ UNCHANGED notMonitor
    \/ discover_miners_detect /\ UNCHANGED notMonitor
    \/ discover_miners_register /\ UNCHANGED notMonitor
    \/ discover_miners_end /\ UNCHANGED notMonitor

SpecMonitor == Init /\ [][NextMonitor]_vars

(* The threads are scheduled: the monitor thread takes its next step, a poll
   task that has not hung ends, and the request thread's calls return *)
SpecMonitorFair ==
    /\ Init
    /\ [][NextMonitor]_vars
    /\ WF_vars(MonitorThread /\ UNCHANGED notMonitor)
    /\ \A ip \in MonDevices :
          WF_vars((\E outcome \in PollOutcomes : poll_task(ip, outcome)) /\ UNCHANGED notMonitor)
    /\ WF_vars(ApiReturns /\ UNCHANGED notMonitor)

-----------------------------------------------------------------------------
(* Properties of the thermal controller *)

CalcOp == "calculate_optimal_frequency"

(* The cooldown of this state is still running at time t *)
StillCooling(state, t) ==
    state.in_emergency_cooldown /\ t - state.cooldown_started < CooldownDuration

(* C1: after any sequence of register_miner, update_miner_stats,
   calculate_optimal_frequency, force_frequency and reset_miner calls, the
   device's current_freq is 0 or lies within [min_freq, max_freq]. *)
C1_FreqZeroOrInRange ==
    \A ip \in DOMAIN thermal_states :
        LET st == thermal_states[ip] IN
        \/ st.current_freq = 0
        \/ /\ Profile(st).min_freq <= st.current_freq
           /\ st.current_freq <= Profile(st).max_freq

(* C2: a calculate_optimal_frequency call made while a cooldown is running
   (less than cooldown_duration since the shutdown) returns frequency 0 and
   leaves current_freq at 0 and the cooldown running, whatever samples came
   in between. *)
C2_CooldownHoldsZero ==
    [][\A ip \in DOMAIN thermal_states :
         (StillCooling(thermal_states[ip], now) /\ calculate_optimal_frequency(ip))
         => /\ ret'.freq = 0
            /\ ret'.reason = "Emergency cooldown in progress"
            /\ thermal_states[ip].current_freq = 0
            /\ thermal_states'[ip].current_freq = 0
            /\ thermal_states'[ip].in_emergency_cooldown]_vars

(* A call during a running cooldown answered 0 although the current sample
   is at or above critical and time has passed since the shutdown *)
C2_Witness ==
    \E ip \in DOMAIN thermal_states :
        LET st == thermal_states[ip] IN
        /\ ret.op = CalcOp
        /\ ret.reason = "Emergency cooldown in progress"
        /\ ret.freq = 0
        /\ st.current_temp >= Profile(st).critical_temp
        /\ now > st.cooldown_started
        /\ st.current_freq = 0

(* C3: outside a running cooldown, a calculate_optimal_frequency call at a
   temperature at or above critical_temp sets current_freq to 0, starts the
   cooldown at now and returns 0 with the EMERGENCY reason, whatever the
   auto-tune switches and the time since the last adjustment. *)
C3_CriticalTriggersShutdown ==
    [][\A ip \in DOMAIN thermal_states :
         LET st == thermal_states[ip] IN
         (/\ ~StillCooling(st, now)
          /\ st.current_temp >= Profile(st).critical_temp
          /\ calculate_optimal_frequency(ip))
         => /\ thermal_states'[ip].current_freq = 0
            /\ thermal_states'[ip].in_emergency_cooldown
            /\ thermal_states'[ip].cooldown_started = now
            /\ ret'.freq = 0
            /\ ret'.reason = "EMERGENCY: Critical temp"]_vars

(* A shutdown was triggered with both auto-tune switches off and less than
   the adjustment interval after the last adjustment *)
C3_Witness ==
    \E ip \in DOMAIN thermal_states :
        LET st == thermal_states[ip] IN
        /\ ret.op = CalcOp
        /\ ret.reason = "EMERGENCY: Critical temp"
        /\ ~st.auto_tune_enabled
        /\ ~global_auto_tune_enabled
        /\ st.last_adjustment # NoTime
        /\ now - st.last_adjustment < AdjustmentInterval
        /\ st.cooldown_started = now
        /\ st.current_freq = 0

(* C4 as stated: from a state in cooldown, the device is in cooldown in the
   next state exactly when the cooldown's end (cooldown_started +
   cooldown_duration) has not been reached (an explicit reset_miner aside). *)
C4_LeavesExactlyAtExpiry ==
    [][\A ip \in DOMAIN thermal_states :
         LET st == thermal_states[ip] IN
         (st.in_emergency_cooldown /\ ~reset_miner(ip))
         => (thermal_states'[ip].in_emergency_cooldown
               <=> now' < st.cooldown_started + CooldownDuration)]_vars

(* C4 amended: a cooldown ends only by reset_miner or by a
   calculate_optimal_frequency call at now >= cooldown_started +
   cooldown_duration; every such call ends it (the flag is cleared, or a new
   cooldown starts at now when the temperature is still critical), and every
   earlier call leaves it running. *)
C4_CooldownEndsAtFirstCalcAfterExpiry ==
    [][\A ip \in DOMAIN thermal_states :
         LET st == thermal_states[ip]
             st2 == thermal_states'[ip]
             expired == now >= st.cooldown_started + CooldownDuration
         IN  st.in_emergency_cooldown
             => /\ (calculate_optimal_frequency(ip) /\ expired)
                     => (~st2.in_emergency_cooldown \/ st2.cooldown_started = now)
                /\ (calculate_optimal_frequency(ip) /\ ~expired)
                     => (st2.in_emergency_cooldown
                         /\ st2.cooldown_started = st.cooldown_started)
                /\ (~st2.in_emergency_cooldown
                    \/ st2.cooldown_started # st.cooldown_started)
                     => (reset_miner(ip)
                         \/ (calculate_optimal_frequency(ip) /\ expired))]_vars

(* A call exactly cooldown_duration after the shutdown has ended the cooldown *)
C4_Witness ==
    \E ip \in DOMAIN thermal_states :
        LET st == thermal_states[ip] IN
        /\ ret.op = CalcOp
        /\ ret.reason = "In optimal range"
        /\ ~st.in_emergency_cooldown
        /\ st.current_freq = 0
        /\ now = CooldownDuration

(* A sample in [warning_temp, critical_temp) with both auto-tune switches on *)
WarningSample(st) ==
    /\ st.current_temp >= Profile(st).warning_temp
    /\ st.current_temp < Profile(st).critical_temp
    /\ st.auto_tune_enabled
    /\ global_auto_tune_enabled

(* C5 as stated: on a warning sample with auto-tune enabled, the frequency a
   calculate_optimal_frequency call produces is not above the frequency
   before the call and not below min_freq. *)
C5_WarningNonIncreasing ==
    [][\A ip \in DOMAIN thermal_states :
         LET st == thermal_states[ip] IN
         (WarningSample(st) /\ calculate_optimal_frequency(ip))
         => /\ ret'.freq <= st.current_freq
            /\ ret'.freq >= Profile(st).min_freq]_vars

(* C5 amended: the same, for a device that is not in cooldown and whose
   current_freq is at least min_freq when the sample is processed. *)
C5_WarningNonIncreasingWhenRunning ==
    [][\A ip \in DOMAIN thermal_states :
         LET st == thermal_states[ip] IN
         (/\ WarningSample(st)
          /\ ~st.in_emergency_cooldown
          /\ st.current_freq >= Profile(st).min_freq
          /\ calculate_optimal_frequency(ip))
         => /\ ret'.freq <= st.current_freq
            /\ ret'.freq >= Profile(st).min_freq
            /\ thermal_states'[ip].current_freq = ret'.freq]_vars

(* Two warning samples in a row have each lowered a running device by
   2 * freq_step *)
C5_Witness ==
    \E ip \in DOMAIN thermal_states :
        LET st == thermal_states[ip] IN
        /\ ret.op = CalcOp
        /\ ret.reason = "Too hot, reducing frequency"
        /\ ~st.in_emergency_cooldown
        /\ st.cooldown_started = NoTime
        /\ st.auto_tune_enabled
        /\ ret.freq = Profile(st).default_freq - 4 * Profile(st).freq_step
        /\ st.current_freq = ret.freq

-----------------------------------------------------------------------------
(* The four-poll scenario: 60, 66, 69, 72 degC from 490 MHz, profile 'Unknown' *)

ScenFreqs == [i \in 1..Len(scen_out) |-> scen_out[i].freq]

Held(i) == scen_out[i].reason = "Too soon since last adjustment"

(* C6 as stated: the four polls yield 490, then 480 (or a hold within the
   adjustment interval), then 460, then 0 with the device in cooldown. *)
C6_ScenarioAsStated ==
    scen_pc = "done"
    => /\ ScenFreqs[1] = 490
       /\ (ScenFreqs[2] = 480 \/ (Held(2) /\ ScenFreqs[2] = 490))
       /\ ScenFreqs[3] = 460
       /\ ScenFreqs[4] = 0
       /\ thermal_states[ScenIP].in_emergency_cooldown

(* C6 amended: the four polls yield 490, then 470 (66 degC is at or above
   warning_temp 65, so the step is 2 * freq_step; or a hold at 490 within
   the adjustment interval), then 20 MHz less than the second (or a hold
   within the adjustment interval), then 0 with the device in cooldown. *)
C6_ScenarioDoubleStep ==
    scen_pc = "done"
    => /\ ScenFreqs[1] = 490
       /\ (Held(1) \/ scen_out[1].reason = "In optimal range")
       /\ ScenFreqs[2] = (IF Held(2) THEN 490 ELSE 470)
       /\ ScenFreqs[3] = (IF Held(3) THEN ScenFreqs[2] ELSE ScenFreqs[2] - 20)
       /\ \A i \in {2, 3} : Held(i) \/ scen_out[i].reason = "Too hot, reducing frequency"
       /\ ScenFreqs[4] = 0
       /\ scen_out[4].reason = "EMERGENCY: Critical temp"
       /\ thermal_states[ScenIP].in_emergency_cooldown
       /\ thermal_states[ScenIP].current_freq = 0

(* The scenario ran with no poll held back *)
C6_Witness ==
    /\ scen_pc = "done"
    /\ ScenFreqs = <<490, 470, 450, 0>>
    /\ thermal_states[ScenIP].in_emergency_cooldown

-----------------------------------------------------------------------------
(* Properties of _time_in_range *)

Minutes(s) == s.h * 60 + s.m

(* Consecutive non-empty windows from 00:00 to 23:59 *)
IsTiling(windows) ==
    /\ Len(windows) >= 1
    /\ windows[1].start_time = Str(0, 0)
    /\ windows[Len(windows)].end_time = Str(23, 59)
    /\ \A i \in 1..(Len(windows) - 1) : windows[i].end_time = windows[i + 1].start_time
    /\ \A i \in 1..Len(windows) :
         Minutes(windows[i].start_time) < Minutes(windows[i].end_time)

XcelColorado ==
    <<Window(Str(0, 0), Str(14, 0)), Window(Str(14, 0), Str(19, 0)),
      Window(Str(19, 0), Str(23, 59))>>

(* C7: for a window list that tiles the day with consecutive windows ending
   at 23:59, every minute of the day lies in exactly one window under
   _time_in_range; 14:00 lies in the 14:00-19:00 window only. *)
C7_TilingExactlyOneWindow ==
    (tr_cur # NoProbe /\ IsTiling(tr_windows))
    => /\ Cardinality(tr_hits) = 1
       /\ \A i \in tr_hits :
            /\ Minutes(tr_windows[i].start_time) <= Minutes(tr_cur)
            /\ Minutes(tr_cur) <= Minutes(tr_windows[i].end_time)
       /\ (tr_windows = XcelColorado /\ tr_cur = Str(14, 0)) => tr_hits = {2}

C7_Witness ==
    /\ tr_windows = XcelColorado
    /\ tr_cur = Str(14, 0)
    /\ tr_hits = {2}

NightWindow == <<Window(Str(23, 0), Str(7, 0))>>

(* C8: for a window whose start is later than its end, _time_in_range holds
   at t exactly when t >= start or t < end; 23:00-07:00 matches 23:30, 03:00
   and 06:59 and does not match 07:00 or 12:00. *)
C8_MidnightWrap ==
    tr_cur # NoProbe
    => /\ \A i \in 1..Len(tr_windows) :
            LET start == tr_windows[i].start_time
                end == tr_windows[i].end_time
            IN  (/\ strptime(start) # ParseError
                 /\ strptime(end) # ParseError
                 /\ Minutes(start) > Minutes(end))
                => (i \in tr_hits
                      <=> (Minutes(tr_cur) >= Minutes(start)
                           \/ Minutes(tr_cur) < Minutes(end)))
       /\ tr_windows = NightWindow
            => /\ tr_cur \in {Str(23, 30), Str(3, 0), Str(6, 59)} => tr_hits = {1}
               /\ tr_cur \in {Str(7, 0), Str(12, 0)} => tr_hits = {}

C8_Witness ==
    /\ tr_windows = NightWindow
    /\ tr_cur = Str(6, 59)
    /\ tr_hits = {1}

-----------------------------------------------------------------------------
(* Properties of the rate resolver *)

(* C9: with the windows [(weekday, 16:00-21:00, 0.17), (every day,
   00:00-23:59, 0.09)] the rate at Saturday 18:00 is 0.09; a window whose
   day_of_week is set is never the one selected at an instant whose weekday
   name differs from it. *)
C9_DayFilterSkips ==
    rate_ret.op # "none"
    => /\ rate_ret.row # 0
            => rate_ret.rates[rate_ret.row].day_of_week \in {NoDay, rate_ret.day}
       /\ (/\ energy_rates = <<WeekdayPeak, AllDayStandard>>
           /\ rate_ret.op = "get_rate_for_timestamp"
           /\ rate_ret.day = "Saturday"
           /\ rate_ret.time = Str(18, 0))
            => rate_ret.rate = 9

C9_Witness ==
    /\ energy_rates = <<WeekdayPeak, AllDayStandard>>
    /\ rate_ret.op = "get_rate_for_timestamp"
    /\ rate_ret.day = "Saturday"
    /\ rate_ret.time = Str(18, 0)
    /\ rate_ret.rate = 9

(* The window passes the day filter and its range contains the instant *)
WindowMatches(rate, day_name, time_str) ==
    /\ (rate.day_of_week = NoDay \/ rate.day_of_week = day_name)
    /\ time_in_range(time_str, rate.start_time, rate.end_time)

(* The configured default_rate, or 0.12 when none is configured *)
ConfiguredDefault ==
    IF energy_config.present /\ energy_config.default_rate # NullRate
    THEN energy_config.default_rate
    ELSE FallbackRate

(* C10: each of get_current_rate, get_rate_for_timestamp and
   get_rate_info_for_hour returns the rate of the first window in list order
   that passes the day filter and contains the instant; when none does, the
   configured default_rate, or 0.12 when none is configured, never an absent
   value. *)
C10_FirstMatchOrDefault ==
    rate_ret.op # "none"
    => LET rates == rate_ret.rates
           hits == {i \in 1..Len(rates) :
                      WindowMatches(rates[i], rate_ret.day, rate_ret.time)}
       IN  IF hits # {}
           THEN \E i \in hits :
                  /\ \A j \in hits : i <= j
                  /\ rate_ret.rate = rates[i].rate_per_kwh
           ELSE /\ rate_ret.rate = ConfiguredDefault
                /\ rate_ret.rate # NullRate

-----------------------------------------------------------------------------
(* Properties of the alert cooldown *)

(* C11: once a send is recorded for a key (alert type, device),
   should_send_alert is false for that key less than alert_cooldown after
   the recorded send and true at or after it (and true for a key with no
   recorded send); send_alert records a send exactly when should_send_alert
   holds, at now, and neither call changes what is recorded for any other
   key. *)
C11_AlertCooldownPerKey ==
    [][\A ty \in AlertTypes, ip \in AlertDevices :
         LET alert == Alert(ty, ip)
             key == AlertKey(alert)
             recorded == key \in DOMAIN last_alerts
             expected == ~recorded \/ now >= last_alerts[key] + AlertCooldown
             others == (DOMAIN last_alerts) \ {key}
         IN  /\ should_send_alert(alert)
               => (alert_ret'.result = expected /\ last_alerts' = last_alerts)
             /\ send_alert(alert)
               => /\ alert_ret'.result = expected
                  /\ expected => (key \in DOMAIN last_alerts' /\ last_alerts'[key] = now)
                  /\ ~expected => last_alerts' = last_alerts
                  /\ (DOMAIN last_alerts') \ {key} = others
                  /\ \A k \in others : last_alerts'[k] = last_alerts[k]]_vars

(* should_send_alert answered true exactly alert_cooldown after a recorded
   send, while another key's send is more recent *)
C11_Witness ==
    /\ alert_ret.op = "should_send_alert"
    /\ alert_ret.result
    /\ AlertKey(alert_ret.alert) \in DOMAIN last_alerts
    /\ now = last_alerts[AlertKey(alert_ret.alert)] + AlertCooldown
    /\ \E k \in DOMAIN last_alerts : last_alerts[k] > last_alerts[AlertKey(alert_ret.alert)]

-----------------------------------------------------------------------------
(* Properties of the device poll *)

Responding(miner_status) == miner_status \in {"online", "overheating", "overheated"}

TrulyOnline(miner_status) == miner_status \in {"online", "overheating"}

Requested(alert, p) == \E i \in 1..Len(p.alerts) : p.alerts[i] = alert

(* The step is a poll of ip *)
IsPoll(ip) == poll'.op = "update_miner" /\ poll'.ip = ip /\ polls' = polls + 1

(* The step is a poll of ip and the operation before it was one too *)
IsNextPoll(ip) == IsPoll(ip) /\ poll.op = "update_miner" /\ poll.ip = ip

(* C12 as stated: on a poll that follows a poll of the same device, an
   offline alert is requested exactly when the device does not respond and
   was responding on the previous poll, a recovery alert exactly when it is
   online and was not responding on the previous poll. *)
C12_AlertsOnRespondingChange ==
    [][\A ip \in FleetIPs :
         IsNextPoll(ip)
         => LET prev == miners[ip].last_status.status
                cur == miners'[ip].last_status.status
            IN  /\ Requested("miner_offline", poll') <=> (~Responding(cur) /\ Responding(prev))
                /\ Requested("miner_online", poll') <=> (cur = "online" /\ ~Responding(prev))]_vars

(* C12 amended: an offline alert is requested exactly on a poll where the
   device does not respond and its previous poll found it online or
   overheating; a recovery alert exactly on a poll where it is online and
   its previous poll did not find it online or overheating (it was offline
   or overheated, or the device had not been polled before).  The flag
   was_online carries this from poll to poll: each poll leaves it true
   exactly when it found the device online or overheating, and no other
   operation changes it. *)
C12_AlertsOnOnlineChange ==
    [][\A ip \in FleetIPs :
         LET polled == ip \in DOMAIN miner_alert_states
             was == polled /\ miner_alert_states[ip].was_online
         IN  /\ IsPoll(ip)
               => LET cur == miners'[ip].last_status.status
                  IN  /\ Requested("miner_offline", poll') <=> (~Responding(cur) /\ was)
                      /\ Requested("miner_online", poll') <=> (cur = "online" /\ ~was)
                      /\ miner_alert_states'[ip].was_online = TrulyOnline(cur)
             /\ IsNextPoll(ip) => (was <=> TrulyOnline(miners[ip].last_status.status))
             /\ ~IsPoll(ip)
               => /\ (ip \in DOMAIN miner_alert_states') = polled
                  /\ polled => miner_alert_states'[ip].was_online = was]_vars

(* A recovery alert was requested on the poll after one that found the
   device overheated *)
C12_Witness ==
    /\ poll.op = "update_miner"
    /\ polls = 2
    /\ poll.prev_status = "overheated"
    /\ ~poll.was_online
    /\ Requested("miner_online", poll)

Sent(command, p) == \E i \in 1..Len(p.commands) : p.commands[i] = command

RestartCommand == Command("restart", "", NoValue)

(* C13: a poll that finds the device overheated with a sampled temperature
   at or below the recovery threshold, auto-reboot enabled, sends the device
   a restart command; when the restart succeeds the same poll requests an
   overheat-recovery alert and leaves no tracking entry for the device.  The
   poll is one whose stats were saved (a poll the store aborted does not
   reach the recovery step). *)
C13_CooledDeviceIsRebooted ==
    [][\A ip \in FleetIPs, in \in PollInputs :
         (/\ in.status.status = "overheated"
          /\ in.status.temperature # NoValue
          /\ in.status.temperature <= OVERHEAT_RECOVERY_TEMP
          /\ in.auto_reboot
          /\ ~in.fault
          /\ IsPoll(ip)
          /\ miners'[ip].last_status = in.status
          /\ update_miner(ip, in))
         => /\ Sent(RestartCommand, poll')
            /\ in.restart_ok
                 => /\ Requested("overheat_recovery", poll')
                    /\ ip \notin DOMAIN overheat_recovery_states'
            /\ ~in.restart_ok
                 => /\ ~Requested("overheat_recovery", poll')
                    /\ ip \in DOMAIN overheat_recovery_states']_vars

(* A device tracked since an earlier overheated poll was rebooted: the
   restart was sent, the recovery alert requested and the entry removed *)
C13_Witness ==
    /\ poll.op = "update_miner"
    /\ poll.prev_status = "overheated"
    /\ polls = 2
    /\ Sent(RestartCommand, poll)
    /\ Requested("overheat_recovery", poll)
    /\ poll.ip \in DOMAIN miners
    /\ miners[poll.ip].last_status.status = "overheated"
    /\ miners[poll.ip].last_status.temperature <= OVERHEAT_RECOVERY_TEMP
    /\ poll.ip \notin DOMAIN overheat_recovery_states

(* C14: in every reachable state a tracking entry exists for a device only
   if the device is in the fleet and, when the last operation was a poll of
   it, that poll found it overheated. *)
C14_EntryOnlyWhileOverheated ==
    \A ip \in DOMAIN overheat_recovery_states :
        /\ ip \in DOMAIN miners
        /\ (poll.op = "update_miner" /\ poll.ip = ip)
             => miners[ip].last_status.status = "overheated"

(* C15: a poll whose calculate_optimal_frequency call triggers an emergency
   shutdown (frequency 0, reason EMERGENCY) sends the device a frequency
   command through apply_settings and requests a frequency-adjusted alert. *)
C15_ShutdownIsApplied ==
    [][\A ip \in FleetIPs :
         (/\ IsPoll(ip)
          /\ is_esp_miner(miners[ip].type)
          /\ poll'.calc.freq = 0
          /\ poll'.calc.reason = "EMERGENCY: Critical temp")
         => /\ \E i \in 1..Len(poll'.commands) :
                  /\ poll'.commands[i].cmd = "apply_settings"
                  /\ poll'.commands[i].setting = "frequency"
            /\ Requested("frequency_adjusted", poll')]_vars

Telemetry(status) ==
    [temperature |-> status.temperature, frequency |-> status.frequency,
     fan_speed |-> status.fan_speed]

(* C16: a poll that fails leaves the telemetry of the device's snapshot
   (temperature, frequency, fan speed) as it was before the poll, and the
   snapshot's status becomes offline. *)
C16_FailedPollKeepsTelemetry ==
    [][\A ip \in FleetIPs, in \in PollInputs :
         (in.status \in FailedStatuses /\ update_miner(ip, in))
         => /\ Telemetry(miners'[ip].last_status) = Telemetry(miners[ip].last_status)
            /\ miners'[ip].last_status.status = "offline"]_vars

-----------------------------------------------------------------------------
(* Properties of the monitoring loop *)

(* C17: an exception in the poll of one device leaves the tasks of the
   other devices as they are; update_all_miners returns only when every
   device has been polled in this iteration, and the iteration then goes on
   to its sleep whatever was raised; the loop ends only when
   monitoring_active has been cleared. *)
C17_FailureIsContained ==
    [][/\ \A ip \in MonDevices, outcome \in PollOutcomes :
            poll_task(ip, outcome)
            => \A other \in MonDevices \ {ip} : futures'[other] = futures[other]
       /\ (monitoring_thread = "polling" /\ monitoring_thread' # "polling")
            => /\ monitoring_thread' = "sleep"
               /\ \A ip \in MonDevices : tick_log[ip].polled = iteration
       /\ (monitoring_thread # "stopped" /\ monitoring_thread' = "stopped")
            => ~monitoring_active]_vars

(* The poll of m1 raised in the first iteration; the first iteration polled
   m2 and completed, and the second iteration has polled both devices *)
C17_Witness ==
    /\ iteration = 2
    /\ monitoring_thread = "sleep"
    /\ tick_log["m1"].raised = 1
    /\ tick_log["m1"].polled = 2
    /\ tick_log["m2"].polled = 2

(* C18: no thread holds the registry lock while a network call it made to a
   device is in progress. *)
C18_NoNetworkUnderLock ==
    \A c \in net : c.thread # lock

(* C19: a tick whose polls have been submitted completes, even when the
   poll of one device never returns. *)
C19_TickCompletesDespiteStraggler ==
    (monitoring_thread = "polling") ~> (monitoring_thread = "sleep")

(* C20: once stop_monitoring has been called no iteration begins, and the
   loop ends, unless a poll of the tick in progress never returns. *)
C20_StopDrainsAndEnds ==
    /\ [][(stop_called # "no" /\ stop_called' # "no") => iteration' = iteration]_vars
    /\ (stop_called # "no")
          ~> (\/ monitoring_thread \in {"none", "stopped"}
              \/ \E ip \in MonDevices : futures[ip] = "hung")

(* stop_monitoring was called while the polls of a tick were in progress;
   they returned and the loop has ended *)
C20_Witness ==
    /\ stop_called = "polling"
    /\ monitoring_thread = "stopped"
    /\ iteration = 1
    /\ \A ip \in MonDevices : futures[ip] = "returned" /\ tick_log[ip].polled = 1

-----------------------------------------------------------------------------
(* Properties of the per-device state *)

(* C21: in every reachable state the keys of thermal_states, of
   miner_alert_states and of overheat_recovery_states are addresses of
   devices of the fleet. *)
C21_StateKeysAreRegistered ==
    /\ DOMAIN thermal_states \subseteq DOMAIN miners
    /\ DOMAIN miner_alert_states \subseteq DOMAIN miners
    /\ DOMAIN overheat_recovery_states \subseteq DOMAIN miners

-----------------------------------------------------------------------------
(* Properties of the writers of rate windows and schedule rows *)

Parsable(s) == strptime(s) # ParseError

TimesParse(rows) ==
    \A i \in 1..Len(rows) : Parsable(rows[i].start_time) /\ Parsable(rows[i].end_time)

(* C22: every stored rate window and schedule row has parsable start and end
   times, and so has every row the resolvers hand to _time_in_range. *)
C22_StoredTimesParse ==
    /\ TimesParse(energy_rates)
    /\ TimesParse(mining_schedule)
    /\ TimesParse(rate_ret.rates)
    /\ TimesParse(sched_ret.rows)

-----------------------------------------------------------------------------
(* Properties of a poll that gets no answer *)

(* C23: a poll whose request times out does not raise: get_status returns a
   status record with status offline and an error field, which becomes the
   device's snapshot; and a poll that finds any status other than online,
   overheating and overheated takes the not-responding branch: the flag
   was_online is cleared, no command is sent, the controller is not called
   and the only alert it can request is the offline alert. *)
C23_TimeoutIsOffline ==
    [][\A ip \in FleetIPs :
         IsPoll(ip)
         => LET status == miners'[ip].last_status IN
            /\ (\E in \in PollInputs : in.status = get_status("timeout", NoStatus))
            /\ status.error = "timeout"
                 => /\ ~poll'.raised
                    /\ status = get_status("timeout", NoStatus)
                    /\ status.status = "offline"
                    /\ status.error # NoError
            /\ ~Responding(status.status)
                 => /\ ~miner_alert_states'[ip].was_online
                    /\ poll'.commands = <<>>
                    /\ poll'.calc = NoCalc
                    /\ thermal_states' = thermal_states
                    /\ \A i \in 1..Len(poll'.alerts) : poll'.alerts[i] = "miner_offline"]_vars

(* A device that was online timed out on its next poll: it is offline, with
   an error field, and the offline alert was requested *)
C23_Witness ==
    /\ poll.op = "update_miner"
    /\ poll.prev_status = "online"
    /\ poll.was_online
    /\ ~poll.raised
    /\ miners[poll.ip].last_status = get_status("timeout", NoStatus)
    /\ Requested("miner_offline", poll)

-----------------------------------------------------------------------------
(* Properties of the frequency commands *)

SetsPositiveFrequency(p) ==
    \E i \in 1..Len(p.commands) :
        /\ p.commands[i].cmd = "apply_settings"
        /\ p.commands[i].setting = "frequency"
        /\ p.commands[i].value > 0

(* The devices the commands of the operation p went to *)
Commanded(p) ==
    IF p.op = "apply_mining_schedule" THEN schedule_targets(miners) ELSE {p.ip}

(* C24: no operation sends a command setting a positive frequency to a
   device whose emergency cooldown is running or whose status is
   overheated. *)
C24_NoFrequencyWhileCoolingOrOverheated ==
    [][\A ip \in FleetIPs :
         (/\ poll' # poll \/ polls' # polls
          /\ ip \in Commanded(poll')
          /\ ip \in DOMAIN miners'
          /\ SetsPositiveFrequency(poll'))
         => /\ ~(ip \in DOMAIN thermal_states /\ StillCooling(thermal_states[ip], now))
            /\ miners'[ip].last_status.status # "overheated"]_vars

-----------------------------------------------------------------------------
(* C25: with auto-tune enabled (the device's switch and the global one), no
   running cooldown, a temperature below critical_temp and the rate limit
   satisfied, calculate_optimal_frequency maps the current frequency f to
   max(min_freq, f - 2 * freq_step) if temp >= warning_temp; else to
   max(min_freq, f - freq_step) if temp > optimal_temp + hysteresis; else to
   min(max_freq, f + freq_step) if temp < optimal_temp - hysteresis and
   temp_trend <= 1; else to f *)
HysteresisTarget(st) ==
    LET p == Profile(st)
        f == st.current_freq
    IN  IF st.current_temp >= p.warning_temp
        THEN Max(p.min_freq, f - 2 * p.freq_step)
        ELSE IF st.current_temp > p.optimal_temp + p.temp_hysteresis
        THEN Max(p.min_freq, f - p.freq_step)
        ELSE IF /\ st.current_temp < p.optimal_temp - p.temp_hysteresis
                /\ st.temp_trend <= 1
        THEN Min(p.max_freq, f + p.freq_step)
        ELSE f

RateLimitSatisfied(st, t) ==
    st.last_adjustment = NoTime \/ t - st.last_adjustment >= AdjustmentInterval

HysteresisApplies(st, t) ==
    /\ st.auto_tune_enabled
    /\ global_auto_tune_enabled
    /\ ~StillCooling(st, t)
    /\ st.current_temp < Profile(st).critical_temp
    /\ RateLimitSatisfied(st, t)

C25_HysteresisMapping ==
    [][\A ip \in DOMAIN thermal_states :
          (/\ HysteresisApplies(thermal_states[ip], now)
           /\ ret'.op = CalcOp
           /\ ret'.ip = ip)
          => /\ ret'.freq = HysteresisTarget(thermal_states[ip])
             /\ thermal_states'[ip].current_freq = HysteresisTarget(thermal_states[ip])]_vars

(* A cool device whose temperature rose by exactly 1 degC has been raised by
   one step, to the top of its range *)
C25_Witness ==
    \E ip \in DOMAIN thermal_states :
        LET st == thermal_states[ip] IN
        /\ ret.op = CalcOp
        /\ ret.ip = ip
        /\ ret.reason = "Below optimal, increasing"
        /\ st.temp_trend = 1
        /\ ret.freq = Profile(st).max_freq
        /\ st.current_freq = ret.freq
        /\ st.last_adjustment = now

-----------------------------------------------------------------------------
(* C26: two frequency changes made by the hysteresis rule for one device are
   at least adjustment_interval apart, and a calculate_optimal_frequency call
   made less than adjustment_interval after the previous change returns the
   current frequency and leaves it unchanged, unless it triggers an emergency
   shutdown *)
TooSoon(st, t) ==
    st.last_adjustment # NoTime /\ t - st.last_adjustment < AdjustmentInterval

C26_ChangesAreSpaced ==
    [][\A ip \in DOMAIN thermal_states :
          LET st == thermal_states[ip]
              st1 == thermal_states'[ip]
          IN  /\ (st.last_adjustment # NoTime /\ st1.last_adjustment # st.last_adjustment)
                 => st1.last_adjustment - st.last_adjustment >= AdjustmentInterval
              /\ (TooSoon(st, now) /\ ret'.op = CalcOp /\ ret'.ip = ip)
                 => \/ ret'.reason = "EMERGENCY: Critical temp"
                    \/ /\ ret'.freq = st.current_freq
                       /\ st1.current_freq = st.current_freq]_vars

(* A call made 15 s after a hysteresis change, with a sample that asks for
   another change, has been refused *)
C26_Witness ==
    \E ip \in DOMAIN thermal_states :
        LET st == thermal_states[ip] IN
        /\ ret.op = CalcOp
        /\ ret.ip = ip
        /\ ret.reason = "Too soon since last adjustment"
        /\ now - st.last_adjustment = 15
        /\ WarningSample(st)
        /\ ret.freq = st.current_freq
        /\ st.current_freq > Profile(st).min_freq

-----------------------------------------------------------------------------
(* C27: in every reachable state, under any interleaving of
   calculate_optimal_frequency, force_frequency and reset_miner, a device
   whose in_emergency_cooldown flag is set has current_freq = 0 *)
C27_CooldownMeansZero ==
    \A ip \in DOMAIN thermal_states :
        thermal_states[ip].in_emergency_cooldown
            => thermal_states[ip].current_freq = 0

-----------------------------------------------------------------------------
(* C28: after an emergency cooldown has elapsed, if later samples stay below
   critical_temp with auto-tune enabled, current_freq eventually returns to
   a value within [min_freq, max_freq]; it does not stay at 0 forever.
   A device is let off as soon as a sample is critical, a switch is off, a
   new cooldown runs, or the hysteresis rule still has a change to make (the
   device is on its way), so only a device the rule holds at 0 refutes it *)
CooldownElapsed(st) ==
    /\ ~st.in_emergency_cooldown
    /\ st.cooldown_started = NoTime
    /\ st.current_freq = 0

InRange(st) ==
    /\ st.current_freq >= Profile(st).min_freq
    /\ st.current_freq <= Profile(st).max_freq

C28_RecoversAfterCooldown ==
    \A ip \in IPs :
        (ip \in DOMAIN thermal_states /\ CooldownElapsed(thermal_states[ip]))
        ~> (ip \in DOMAIN thermal_states /\ LET st == thermal_states[ip] IN
            \/ InRange(st)
            \/ st.current_temp >= Profile(st).critical_temp
            \/ ~st.auto_tune_enabled
            \/ ~global_auto_tune_enabled
            \/ st.in_emergency_cooldown
            \/ HysteresisTarget(st) # st.current_freq)

-----------------------------------------------------------------------------
(* C29: the control tick reads and iterates the device registry only while
   holding the registry lock, so a concurrent delete or discovery never
   changes the registry while the tick is iterating over it to fan out
   polls *)
C29_RegistryStableWhileIterating ==
    [][tick_pc = "iterating"
          => /\ lock = "monitor"
             /\ miners' = miners]_vars

-----------------------------------------------------------------------------
(* C30: at most one monitoring loop runs ticks at any time, under any
   interleaving of start_monitoring and stop_monitoring calls, including
   stop_monitoring returning after its join timeout while a tick is still in
   progress, followed by start_monitoring *)
C30_OneLoopRunsTicks ==
    \A i, j \in DOMAIN loop_threads :
        (loop_threads[i].pc = "tick" /\ loop_threads[j].pc = "tick") => i = j

-----------------------------------------------------------------------------
(* C31: a poll that finds the device overheated does not feed the sample
   into the thermal controller (its ThermalState is left as it was and
   calculate_optimal_frequency is not called) and sends no auto-tune fan or
   frequency command to the device *)
AutoTuneCommand(p) ==
    \E i \in 1..Len(p.commands) : p.commands[i].cmd = "apply_settings"

C31_OverheatedBypassesController ==
    [][\A ip \in FleetIPs :
         (IsPoll(ip) /\ miners'[ip].last_status.status = "overheated")
         => /\ thermal_states' = thermal_states
            /\ poll'.calc = NoCalc
            /\ ~AutoTuneCommand(poll')]_vars

-----------------------------------------------------------------------------
(* C32: within one device's poll, when auto-tune yields both a fan-speed
   change and a frequency change, the fan-speed command is sent to the
   device before the frequency command: a fan-speed command is never the
   last of the two, and the command after it is the frequency command that
   carries the calculated target *)
IsFanCommand(c) == c.cmd = "apply_settings" /\ c.setting = "fanspeed"

IsFrequencyCommand(c) == c.cmd = "apply_settings" /\ c.setting = "frequency"

TargetApplied(p) ==
    /\ p.calc # NoCalc
    /\ p.calc.freq > 0
    /\ \E j \in 1..Len(p.commands) :
          IsFrequencyCommand(p.commands[j]) /\ p.commands[j].value = p.calc.freq

C32_FanBeforeFrequency ==
    [][\A ip \in FleetIPs :
         (/\ IsPoll(ip)
          /\ TargetApplied(poll')
          /\ \E i \in 1..Len(poll'.commands) : IsFanCommand(poll'.commands[i]))
         => \A i \in 1..Len(poll'.commands) :
               IsFanCommand(poll'.commands[i])
               => /\ i < Len(poll'.commands)
                  /\ IsFrequencyCommand(poll'.commands[i + 1])
                  /\ poll'.commands[i + 1].value = poll'.calc.freq]_vars

(* A poll has sent a fan-speed command and then the frequency command of
   the calculated target *)
C32_Witness ==
    /\ poll.op = "update_miner"
    /\ Len(poll.commands) = 2
    /\ IsFanCommand(poll.commands[1])
    /\ IsFrequencyCommand(poll.commands[2])
    /\ poll.commands[2].value = poll.calc.freq
    /\ poll.calc.freq > 0

-----------------------------------------------------------------------------
(* C33: in a tick the schedule override is sent as a frequency command if
   and only if should_mine_now resolves a target frequency greater than 0,
   and then to the devices of an ESP-Miner family only (one command each, of
   that frequency); a resolved frequency of 0 (no rows, no matching row, or
   a matching row with target 0) sends no schedule command *)
EspDevices == {ip \in DOMAIN miners : is_esp_miner(miners[ip].type)}

IsOverride == poll'.op = "apply_mining_schedule" /\ sched_ret'.op = "should_mine_now"

C33_OverrideOnlyWhenPositive ==
    [][IsOverride
         => LET target == sched_ret'.target_frequency IN
            /\ target > 0
                 => /\ Len(poll'.commands) = Cardinality(EspDevices)
                    /\ \A i \in 1..Len(poll'.commands) :
                          poll'.commands[i] = Command("apply_settings", "frequency", target)
            /\ target <= 0 => poll'.commands = <<>>
            /\ miners' = miners]_vars

(* With an ESP-Miner device and an Antminer registered, a cap of 450 has
   been sent to the one ESP-Miner device *)
C33_Witness ==
    /\ poll.op = "apply_mining_schedule"
    /\ sched_ret.op = "should_mine_now"
    /\ sched_ret.target_frequency = 450
    /\ Cardinality(DOMAIN miners) = 2
    /\ Cardinality(EspDevices) = 1
    /\ poll.commands = <<Command("apply_settings", "frequency", 450)>>

(* A matching row with target 0 has sent nothing to a registered ESP-Miner
   device *)
C33_WitnessZero ==
    /\ poll.op = "apply_mining_schedule"
    /\ sched_ret.op = "should_mine_now"
    /\ sched_ret.rows # <<>>
    /\ sched_ret.target_frequency = 0
    /\ EspDevices # {}
    /\ poll.commands = <<>>

-----------------------------------------------------------------------------
(* C34: a poll result with a missing or malformed temperature causes no
   change to the device's ThermalState (current_temp, temp_trend,
   current_freq, cooldown flag) and no auto-tune command for that device in
   that tick *)
ThermalFields(st) ==
    [current_temp |-> st.current_temp, temp_trend |-> st.temp_trend,
     current_freq |-> st.current_freq,
     in_emergency_cooldown |-> st.in_emergency_cooldown]

C34_BadSampleChangesNothing ==
    [][\A ip \in FleetIPs, data \in Answers :
         (data.temp.kind \in {"missing", "malformed"} /\ poll_answer(ip, data))
         => /\ DOMAIN thermal_states' = DOMAIN thermal_states
            /\ \A x \in DOMAIN thermal_states :
                  ThermalFields(thermal_states'[x]) = ThermalFields(thermal_states[x])
            /\ ~AutoTuneCommand(poll')]_vars

-----------------------------------------------------------------------------
(* C35: force_frequency(ip, f) on a registered device, for any integer f,
   sets current_freq to f clamped into [min_freq, max_freq], disables that
   device's auto-tune, leaves the rest of its state and returns true; on an
   unregistered device it returns false and changes no state *)
Clamped(p, f) ==
    IF f < p.min_freq THEN p.min_freq ELSE IF f > p.max_freq THEN p.max_freq ELSE f

C35_ForceClamps ==
    [][\A ip \in OperatorIPs, f \in ForcedFrequencies :
         (ret'.op = "force_frequency" /\ ret'.ip = ip /\ force_frequency(ip, f))
         => IF ip \in DOMAIN thermal_states
            THEN /\ ret'.reason = "True"
                 /\ thermal_states' =
                      [thermal_states EXCEPT
                         ![ip].current_freq = Clamped(Profile(thermal_states[ip]), f),
                         ![ip].auto_tune_enabled = FALSE]
                 /\ global_auto_tune_enabled' = global_auto_tune_enabled
            ELSE /\ ret'.reason = "False"
                 /\ thermal_states' = thermal_states
                 /\ global_auto_tune_enabled' = global_auto_tune_enabled]_vars

(* A request below the range has been raised to min_freq, with auto-tune
   switched off *)
C35_Witness ==
    \E ip \in DOMAIN thermal_states :
        /\ ret.op = "force_frequency"
        /\ ret.ip = ip
        /\ ret.reason = "True"
        /\ thermal_states[ip].current_freq = Profile(thermal_states[ip]).min_freq
        /\ ~thermal_states[ip].auto_tune_enabled
        /\ thermal_states[ip].in_emergency_cooldown

(* A call for an address that is not registered has returned false *)
C35_WitnessUnregistered ==
    /\ ret.op = "force_frequency"
    /\ ret.ip \notin DOMAIN thermal_states
    /\ ret.reason = "False"

-----------------------------------------------------------------------------
(* C36: reset_miner on a registered device sets current_freq to the
   profile's default_freq, re-enables auto-tune and clears the cooldown flag
   and the cooldown start time, whatever the prior state, and leaves the
   other fields; on an unregistered device it changes nothing *)
C36_ResetRestoresDefaults ==
    [][\A ip \in OperatorIPs :
         reset_miner(ip)
         => IF ip \in DOMAIN thermal_states
            THEN thermal_states' =
                   [thermal_states EXCEPT
                      ![ip].current_freq = MINER_PROFILES(thermal_states[ip].miner_type).default_freq,
                      ![ip].auto_tune_enabled = TRUE,
                      ![ip].in_emergency_cooldown = FALSE,
                      ![ip].cooldown_started = NoTime]
            ELSE thermal_states' = thermal_states]_vars

(* A device that was forced to a frequency during a cooldown has been
   reset: default frequency, auto-tune on, no cooldown *)
C36_Witness ==
    \E ip \in DOMAIN thermal_states :
        LET st == thermal_states[ip] IN
        /\ ret = NoRet
        /\ st.current_freq = Profile(st).default_freq
        /\ st.auto_tune_enabled
        /\ ~st.in_emergency_cooldown
        /\ st.cooldown_started = NoTime
        /\ st.current_temp >= Profile(st).critical_temp

-----------------------------------------------------------------------------
(* C37: while the device's or the global auto-tune switch is off, and the
   device is neither in a running cooldown nor at or above critical_temp,
   calculate_optimal_frequency returns current_freq and changes neither
   current_freq nor last_adjustment *)
C37_DisabledChangesNothing ==
    [][\A ip \in DOMAIN thermal_states :
         LET st == thermal_states[ip] IN
         (/\ ~st.auto_tune_enabled \/ ~global_auto_tune_enabled
          /\ ~StillCooling(st, now)
          /\ st.current_temp < Profile(st).critical_temp
          /\ ret'.op = CalcOp
          /\ ret'.ip = ip)
         => /\ ret'.freq = st.current_freq
            /\ ret'.reason = "Auto-tune disabled"
            /\ thermal_states'[ip].current_freq = st.current_freq
            /\ thermal_states'[ip].last_adjustment = st.last_adjustment]_vars

(* With only the global switch off, a call on a warning sample has left a
   running device where it was *)
C37_Witness ==
    \E ip \in DOMAIN thermal_states :
        LET st == thermal_states[ip] IN
        /\ ret.op = CalcOp
        /\ ret.ip = ip
        /\ ret.reason = "Auto-tune disabled"
        /\ st.auto_tune_enabled
        /\ ~global_auto_tune_enabled
        /\ st.current_temp >= Profile(st).warning_temp
        /\ ret.freq = Profile(st).default_freq
        /\ st.last_adjustment = NoTime

-----------------------------------------------------------------------------
(* The schedule row the specification describes for a rate window *)
RowFor(window, threshold, low, high) ==
    [day_of_week |-> window.day_of_week,
     start_time |-> window.start_time,
     end_time |-> window.end_time,
     target_frequency |-> IF window.rate_per_kwh > threshold THEN low ELSE high,
     enabled |-> 1]

(* The rows are, one for one, the rows described for the windows *)
OnePerWindow(rows, windows, threshold, low, high) ==
    /\ Len(rows) = Len(windows)
    /\ \E p \in [1..Len(rows) -> 1..Len(rows)] :
         /\ \A i, j \in 1..Len(rows) : i # j => p[i] # p[j]
         /\ \A i \in 1..Len(rows) :
              rows[i] = RowFor(windows[p[i]], threshold, low, high)

(* C38: after create_schedule_from_rates(threshold, low, high) the enabled
   schedule rows are exactly one per stored rate window, each with the
   window's start, end and day filter and with target_frequency low when the
   window's rate is above the threshold and high otherwise (a rate equal to
   the threshold gets high); no row that was enabled before remains *)
C38_ScheduleFollowsRates ==
    [][\A threshold \in AutoThresholds, low \in AutoLow, high \in AutoHigh :
         (/\ sched_ret'.op = "create_schedule_from_rates"
          /\ create_schedule_from_rates(threshold, low, high))
         => OnePerWindow(SelectSeq(mining_schedule', IsEnabled), energy_rates,
                         threshold, low, high)]_vars

(* A call has deleted an enabled row posted by hand, kept a disabled one, and
   stored a low row for the window above the threshold and a high row for
   the window at the threshold *)
C38_Witness ==
    /\ sched_ret.op = "create_schedule_from_rates"
    /\ sched_ret.rows # <<>>
    /\ \E i \in 1..Len(mining_schedule) : mining_schedule[i].enabled = 0
    /\ \E i \in 1..Len(energy_rates) : energy_rates[i].rate_per_kwh = 20
    /\ \E i \in 1..Len(energy_rates) : energy_rates[i].rate_per_kwh = 30
    /\ \E i \in 1..Len(mining_schedule) :
         /\ mining_schedule[i].day_of_week = "Monday"
         /\ mining_schedule[i].target_frequency = 500
    /\ \E i \in 1..Len(mining_schedule) :
         /\ mining_schedule[i].enabled = 1
         /\ mining_schedule[i].target_frequency = 400
    /\ \A i \in 1..Len(mining_schedule) : mining_schedule[i].target_frequency # 475

-----------------------------------------------------------------------------
(* The step is a shutdown triggered at this instant from a state whose
   cooldown, if it had one, is over *)
FreshTrigger(st, st2) ==
    /\ ~StillCooling(st, now)
    /\ st.current_temp >= Profile(st).critical_temp
    /\ ret'.op = CalcOp
    /\ st2.in_emergency_cooldown
    /\ st2.cooldown_started = now
    /\ st2.current_freq = 0

(* C39: samples at or above critical_temp received during a running cooldown
   do not restart or extend it: cooldown_started is left alone by every step
   taken while the cooldown runs, it gets a new instant only from a shutdown
   triggered outside a running cooldown, and the first calculation made 10
   minutes or more after the trigger ends the cooldown that trigger began *)
C39_CooldownNotRestarted ==
    [][\A ip \in DOMAIN thermal_states :
         LET st == thermal_states[ip]
             st2 == thermal_states'[ip]
         IN  /\ StillCooling(st, now)
                => /\ st2.in_emergency_cooldown
                   /\ st2.cooldown_started = st.cooldown_started
             /\ (st2.cooldown_started # st.cooldown_started
                 /\ st2.cooldown_started # NoTime)
                => FreshTrigger(st, st2)
             /\ (/\ st.in_emergency_cooldown
                 /\ now - st.cooldown_started >= CooldownDuration
                 /\ ret'.op = CalcOp
                 /\ ret'.ip = ip)
                => /\ ret'.reason # "Emergency cooldown in progress"
                   /\ st2.cooldown_started # st.cooldown_started]_vars

(* A calculation on a critical sample, made 15 seconds into a cooldown, has
   answered that the cooldown is in progress and left its start alone *)
C39_Witness ==
    \E ip \in DOMAIN thermal_states :
        LET st == thermal_states[ip] IN
        /\ ret.op = CalcOp
        /\ ret.ip = ip
        /\ ret.reason = "Emergency cooldown in progress"
        /\ st.in_emergency_cooldown
        /\ st.current_temp >= Profile(st).critical_temp
        /\ st.cooldown_started = 0
        /\ now = 15

-----------------------------------------------------------------------------
(* day_of_week values that name a category of days, not a day *)
Categories == {"weekday", "weekend"}

(* The targets of the schedule rows whose day_of_week is a category *)
CategoryTargets ==
    {s.target_frequency : s \in {c \in CategorySchedules : c.day_of_week \in Categories}}

(* C40: a rate or schedule window whose day_of_week is 'weekday' or 'weekend'
   is never the one the resolver selects, on any of the seven days: the
   selected window has no day_of_week or the full weekday name of the
   instant *)
C40_CategoryNeverSelected ==
    [][/\ (rate_ret'.op # "none" /\ rate_ret'.row # 0)
          => LET selected == rate_ret'.rates[rate_ret'.row] IN
             /\ selected.day_of_week \notin Categories
             /\ selected.day_of_week \in {NoDay, rate_ret'.day}
       /\ \A day \in Days, t \in CategoryMinutes :
            (/\ sched_ret'.op = "should_mine_now"
             /\ should_mine_now(day, t)
             /\ sched_ret'.target_frequency # 0)
            => /\ sched_ret'.target_frequency \notin CategoryTargets
               /\ \E i \in 1..Len(sched_ret'.rows) :
                    /\ sched_ret'.rows[i].target_frequency = sched_ret'.target_frequency
                    /\ sched_ret'.rows[i].day_of_week \in {NoDay, day}]_vars

(* With the custom time-of-use rates stored, the rate at Monday 18:00 is the
   default and not the weekday peak; and with a weekend schedule row stored
   alone, the schedule resolves no target *)
C40_Witness ==
    /\ energy_rates = custom_rates(12, 25, 7)
    /\ rate_ret.op = "get_rate_for_timestamp"
    /\ rate_ret.day = "Monday"
    /\ rate_ret.time = Str(18, 0)
    /\ rate_ret.row = 0
    /\ rate_ret.rate = 12
    /\ mining_schedule = <<Schedule("weekend", Str(0, 0), Str(23, 59), 575)>>
    /\ sched_ret.op = "should_mine_now"
    /\ sched_ret.target_frequency = 0

====
